---- MODULE Spec2Model ----
(***************************************************************************)
(* The heartbeat service of crush: the PID-file lock (acquireLock,         *)
(* releaseLock, GetStatus), the scheduler loop of Service.Start with       *)
(* Service.Stop, and Service.runCycle with the ContextManager's load,      *)
(* backup, command execution, save and log.                                *)
(*                                                                         *)
(* Every heartbeat process is an element of Procs and is its own PID.      *)
(* All processes share one home directory: heartbeat.pid, context.json,    *)
(* backups/ and mission-log.md.                                             *)
(***************************************************************************)
EXTENDS Integers, Sequences, FiniteSets, TLC

\* ------------------------------------------------------------------ bounds
\* Longest list of commands in one MEMORY_COMMANDS block (SpecApply).
MaxCmds == 2
\* Number of heartbeat processes (PIDs 1..NumProcs).
NumProcs == 2
\* No tick is delivered to a service whose cycleNumber has reached MaxCycle.
MaxCycle == 2
\* Start() is called at most MaxStarts times on one Service.
MaxStarts == 2
MaxObs == 7
MaxClock == 1

Procs == 1..NumProcs

\* Content of heartbeat.pid when the file does not exist.
NoFile == 0

VARIABLES
  alive,        \* alive[p]: the OS process p answers signal 0
  pidFile,      \* heartbeat.pid: NoFile or the PID written in it
  pc,           \* pc[p]: where Service.Start of p stands
  ret,          \* ret[p]: what the last Start() call returned ("none" while it runs)
  oldPID,       \* acquireLock's local oldPID, kept until Start goes on after
                \* acquireLock (NoFile otherwise, and when no file was read)
  running,      \* s.running
  raced,        \* Stop() has written s.running without synchronisation and the
                \* loop goroutine has not synchronised with it yet
  cycleNumber,  \* s.cycleNumber
  ctxCancelled, \* s.ctx has been cancelled (s.cancel() was called)
  sigPending,   \* sigChan holds a signal (buffer of 1)
  tickPending,  \* ticker.C holds a tick (buffer of 1)
  ctx,          \* the *Context runCycle loaded and holds across the delegation
  kbFile,       \* context.json
  backups,      \* backups/: the files written by BackupContext, in order
  log,          \* mission-log.md: the entries appended, in order
  inflight,     \* inflight[p]: CoderAgentRun calls of p that returned a done
                \* channel which the executor has not closed yet
  starts,       \* number of Start() calls made on the Service of p
  touched,      \* history: p ran a cycle or wrote the log, a backup or context.json
                \* since its last Start() call
  stopped,      \* history: a Start() call of p has left its loop (Stopped)
  completed,    \* history: number of runCycle calls that returned nil
  lastCmds,     \* history: memoryCommands of the latest runCycle that got past
                \* its delegation
  status,       \* the last answer of GetStatus() and who asked
  goalsFile,    \* goals.json
  missionFile,  \* mission.md
  clock,        \* what time.Now() returns
  prompt,       \* the text BuildUserPrompt returned last, line by line
  session,      \* session[p]: the number in the title of the session runCycle of p
                \* created for the cycle it is in (0 when it is in none)
  usedNumbers,  \* history: the cycle numbers runCycle calls have taken so far
  agentError,   \* agentError[p]: the adapter of p has logged "Agent error" for an
                \* event of the run that runCycle of p started last
  memFiles,     \* the memory.json of each path of the memory Store
  remembered    \* history: what the latest Remember or Forget call for key on
                \* path did: the value, when it was a Remember that returned nil,
                \* Forgotten, when it was a Forget that returned nil, NoValue when
                \* it returned an error or there was no call

vars == <<alive, pidFile, pc, ret, oldPID, running, raced, cycleNumber,
          ctxCancelled, sigPending, tickPending, ctx, kbFile, backups, log,
          inflight, starts, touched, stopped, completed, lastCmds, status,
          goalsFile, missionFile, clock, prompt, session, usedNumbers, agentError,
          memFiles, remembered>>

lockVars == <<alive, pidFile, oldPID>>
loopVars == <<running, raced, cycleNumber, ctxCancelled, sigPending, tickPending>>
storeVars == <<ctx, kbFile, backups, log, inflight>>
histVars == <<starts, touched, stopped, completed, lastCmds>>
promptVars == <<goalsFile, missionFile, clock, prompt>>
memVars == <<memFiles, remembered>>
heartbeatVars == <<alive, pidFile, pc, ret, oldPID, running, raced, cycleNumber,
                   ctxCancelled, sigPending, tickPending, ctx, kbFile, backups,
                   log, inflight, starts, touched, stopped, completed, lastCmds,
                   status, goalsFile, missionFile, clock, prompt, session,
                   usedNumbers, agentError>>

\* ------------------------------------------------------------ memory store
\* Keys and values handed to the Store. A Go string is any sequence of bytes:
\* BadUTF8 is one that is not valid UTF-8, Replaced the same text with the
\* offending bytes replaced by U+FFFD.
Keys == {"k1", "k2"}
BadUTF8 == "#invalid-utf8"
Replaced == "#replaced"
Values == {"v1", "v2", BadUTF8}
NoValue == "#none"
Forgotten == "#forgotten"

\* Scope values a caller passes: project, global, and the empty Scope.
Scopes == {"project", "global", ""}

\* getMemoryPath for the scopes above: every scope that is not session or
\* project gets the global file.
MemPaths == {"projects/memory.json", "global/memory.json"}
getMemoryPath(scope) ==
  IF scope = "project" THEN "projects/memory.json" ELSE "global/memory.json"

\* A memory.json: missing, unparsable, or a JSON array of memories.
MemAbsent == [state |-> "absent", data |-> <<>>]
MemCorrupt == [state |-> "corrupt", data |-> <<>>]

\* json.MarshalIndent of a string and json.Unmarshal of the result: invalid
\* UTF-8 is coerced to valid UTF-8, the offending bytes become U+FFFD.
JSONString(s) == IF s = BadUTF8 THEN Replaced ELSE s

\* loadMemories: <<ok, memories>>; a missing file is an empty list.
loadMemories(file) ==
  IF file.state = "absent" THEN <<TRUE, <<>>>>
  ELSE IF file.state = "corrupt" THEN <<FALSE, <<>>>>
  ELSE <<TRUE, file.data>>

\* saveMemories: the file afterwards, for each outcome of os.WriteFile.
saveMemories(file, memories, outcome) ==
  CASE outcome = "ok" ->
         [state |-> "ok",
          data |-> [i \in 1..Len(memories) |->
                      [key |-> JSONString(memories[i].key),
                       value |-> JSONString(memories[i].value),
                       scope |-> JSONString(memories[i].scope)]]]
    [] outcome = "fail_untouched" -> file
    [] outcome = "fail_truncated" -> MemCorrupt

\* Index of the first memory with the key, 0 when there is none.
FirstWithKey(memories, key) ==
  IF \E i \in 1..Len(memories) : memories[i].key = key
    THEN CHOOSE i \in 1..Len(memories) :
           /\ memories[i].key = key
           /\ \A j \in 1..(i - 1) : memories[j].key # key
    ELSE 0

\* Store.Recall: <<"error" | "not_found" | "found", value>>.
Recall(key, scope) ==
  LET ld == loadMemories(memFiles[getMemoryPath(scope)])
      i == FirstWithKey(ld[2], key)
  IN IF ~ld[1] THEN <<"error", NoValue>>
     ELSE IF i = 0 THEN <<"not_found", NoValue>>
     ELSE <<"found", ld[2][i].value>>

\* Store.List: <<ok, memories>>.
List(scope) == loadMemories(memFiles[getMemoryPath(scope)])

\* What Store.Remember returns.
RememberReturns(key, scope, outcome) ==
  IF loadMemories(memFiles[getMemoryPath(scope)])[1] /\ outcome = "ok"
    THEN "nil" ELSE "error"

\* What Store.Forget returns.
ForgetReturns(key, scope, outcome) ==
  IF loadMemories(memFiles[getMemoryPath(scope)])[1] /\ outcome = "ok"
    THEN "nil" ELSE "error"

\* A filter that keeps nothing.
FilteredNone(memories, key) == <<>>

\* The loop of Forget: the memories whose key is not the one given, in order.
Filtered(memories, key) == SelectSeq(memories, LAMBDA m : m.key # key)

\* Store.Remember(key, value, scope, metadata): the memories of the scope's
\* file are loaded, the first one with the key is replaced or the new one is
\* appended, and the list is written back.
Remember(key, value, scope, outcome) ==
  LET path == getMemoryPath(scope)
      ld == loadMemories(memFiles[path])
      memory == [key |-> key, value |-> value, scope |-> scope]
      i == FirstWithKey(ld[2], key)
      memories == IF i = 0 THEN Append(ld[2], memory) ELSE [ld[2] EXCEPT ![i] = memory]
  IN /\ memFiles' = IF ld[1]
                      THEN [memFiles EXCEPT ![path] = saveMemories(@, memories, outcome)]
                      ELSE memFiles
     /\ remembered' = [remembered EXCEPT ![path][key] =
                         IF RememberReturns(key, scope, outcome) = "nil"
                           THEN value ELSE NoValue]
     /\ UNCHANGED heartbeatVars

\* Store.Forget(key, scope): the memories of the scope's file are loaded and
\* those with another key are written back.
Forget(key, scope, outcome) ==
  LET path == getMemoryPath(scope)
      ld == loadMemories(memFiles[path])
  IN /\ memFiles' = IF ld[1]
                      THEN [memFiles EXCEPT ![path] =
                              saveMemories(@, Filtered(ld[2], key), outcome)]
                      ELSE memFiles
     /\ remembered' = [remembered EXCEPT ![path][key] =
                         IF ForgetReturns(key, scope, outcome) = "nil"
                           THEN Forgotten ELSE NoValue]
     /\ UNCHANGED heartbeatVars

\* ------------------------------------------------------- knowledge base data
\* Values a field of MemoryCommand.Data can hold: strings, a JSON number,
\* or the field is absent from the map.
StrVals == {"X", "high"}
NumVal == "#number"
Absent == "#absent"

\* A type assertion that takes every value that is there for a string.
IsStringLoose(v) == v # Absent

\* data[field].(string): the value and whether the type assertion succeeded.
IsString(v) == v \in StrVals

\* A conversion that loses the text.
AsStringEmpty(v) == ""

AsString(v) == IF IsString(v) THEN v ELSE ""

Cmd(command, content, confidence, name, description) ==
  [command |-> command, content |-> content, confidence |-> confidence,
   name |-> name, description |-> description]

createEmptyContext ==
  [observations |-> <<>>, lessons |-> <<>>, hypotheses |-> <<>>,
   strategies |-> <<>>, total_cycles |-> 0]

\* context.json: missing, unparsable (truncated or partly written), or a Context.
FileAbsent == [state |-> "absent", data |-> createEmptyContext]
FileCorrupt == [state |-> "corrupt", data |-> createEmptyContext]
FileOf(c) == [state |-> "ok", data |-> c]

\* A load that never reads the file and always starts from an empty context.
LoadContextFresh(file, readOk) == <<TRUE, createEmptyContext>>

\* goals.json: a Goals value; LoadGoals gives this one when the file does not
\* exist.
NoGoalsFile == [goals |-> <<>>, next_id |-> 1]

\* mission.md: its text; LoadMission gives "" when the file does not exist.
NoMissionFile == ""

\* LoadContext: <<ok, context>>; readOk is the outcome of os.ReadFile for an
\* existing file.
LoadContext(file, readOk) ==
  IF file.state = "absent" THEN <<TRUE, createEmptyContext>>
  ELSE IF ~readOk THEN <<FALSE, createEmptyContext>>
  ELSE IF file.state = "corrupt" THEN <<FALSE, createEmptyContext>>
  ELSE <<TRUE, file.data>>

\* os.WriteFile(path, data) truncates the file on open and then writes: it
\* succeeds, fails before the open (file untouched) or fails after the
\* truncation (file empty or partly written).
WriteOutcomes == {"ok", "fail_untouched", "fail_truncated"}

\* SaveContext: the file afterwards.
SaveContext(file, c, outcome) ==
  CASE outcome = "ok" -> FileOf(c)
    [] outcome = "fail_untouched" -> file
    [] outcome = "fail_truncated" -> FileCorrupt

\* A backup tagged with the count found in the file it copies.
BackupContextTaggedByFile(bk, file, cycle, ok) ==
  IF file.state = "absent" THEN bk
  ELSE IF ~ok THEN bk
  ELSE Append(bk, [reason |-> file.data.total_cycles, file |-> file])

\* BackupContext(reason): copies the bytes of context.json as they are on disk
\* into backups/; does nothing when context.json does not exist. A failure
\* writes no backup and is returned to the caller.
BackupContext(bk, file, cycle, ok) ==
  IF file.state = "absent" THEN bk
  ELSE IF ~ok THEN bk
  ELSE Append(bk, [reason |-> cycle, file |-> file])

\* ExecuteMemoryCommand with a prune_old that evicts every observation.
ExecuteMemoryCommandPruning(c, cmd, cycle) ==
  CASE cmd.command = "add_observation" ->
         IF ~IsString(cmd.content) THEN <<FALSE, c>>
         ELSE <<TRUE, [c EXCEPT !.observations =
                  Append(@, [content |-> cmd.content, cycle |-> cycle])]>>
    [] cmd.command = "add_lesson" ->
         IF ~IsString(cmd.content) THEN <<FALSE, c>>
         ELSE <<TRUE, [c EXCEPT !.lessons =
                  Append(@, [content |-> cmd.content, cycle |-> cycle,
                             confidence |-> AsString(cmd.confidence)])]>>
    [] cmd.command = "add_hypothesis" ->
         IF ~IsString(cmd.content) THEN <<FALSE, c>>
         ELSE <<TRUE, [c EXCEPT !.hypotheses =
                  Append(@, [content |-> cmd.content, cycle |-> cycle,
                             status |-> "testing"])]>>
    [] cmd.command = "add_strategy" ->
         IF ~IsString(cmd.name) \/ ~IsString(cmd.description) THEN <<FALSE, c>>
         ELSE <<TRUE, [c EXCEPT !.strategies =
                  Append(@, [name |-> cmd.name, description |-> cmd.description,
                             cycle |-> cycle, effectiveness |-> ""])]>>
    [] cmd.command = "prune_old" -> <<TRUE, [c EXCEPT !.observations = <<>>]>>
    [] OTHER -> <<FALSE, c>>

\* ExecuteMemoryCommand: <<err = nil, context afterwards>>.
ExecuteMemoryCommand(c, cmd, cycle) ==
  CASE cmd.command = "add_observation" ->
         IF ~IsString(cmd.content) THEN <<FALSE, c>>
         ELSE <<TRUE, [c EXCEPT !.observations =
                  Append(@, [content |-> cmd.content, cycle |-> cycle])]>>
    [] cmd.command = "add_lesson" ->
         IF ~IsString(cmd.content) THEN <<FALSE, c>>
         ELSE <<TRUE, [c EXCEPT !.lessons =
                  Append(@, [content |-> cmd.content, cycle |-> cycle,
                             confidence |-> AsString(cmd.confidence)])]>>
    [] cmd.command = "add_hypothesis" ->
         IF ~IsString(cmd.content) THEN <<FALSE, c>>
         ELSE <<TRUE, [c EXCEPT !.hypotheses =
                  Append(@, [content |-> cmd.content, cycle |-> cycle,
                             status |-> "testing"])]>>
    [] cmd.command = "add_strategy" ->
         IF ~IsString(cmd.name) \/ ~IsString(cmd.description) THEN <<FALSE, c>>
         ELSE <<TRUE, [c EXCEPT !.strategies =
                  Append(@, [name |-> cmd.name, description |-> cmd.description,
                             cycle |-> cycle, effectiveness |-> ""])]>>
    [] cmd.command = "prune_old" -> <<TRUE, c>>
    [] OTHER -> <<FALSE, c>>

\* A command loop that gives up at the first command that fails.
RECURSIVE ExecuteAllStopAtError(_, _, _)
ExecuteAllStopAtError(c, cmds, cycle) ==
  IF cmds = <<>> THEN c
  ELSE IF ~ExecuteMemoryCommand(c, Head(cmds), cycle)[1] THEN c
  ELSE ExecuteAllStopAtError(ExecuteMemoryCommand(c, Head(cmds), cycle)[2],
                             Tail(cmds), cycle)

\* The loop of runCycle over memoryCommands: a failing command is logged and
\* the loop goes on with the next one.
RECURSIVE ExecuteAll(_, _, _)
ExecuteAll(c, cmds, cycle) ==
  IF cmds = <<>> THEN c
  ELSE ExecuteAll(ExecuteMemoryCommand(c, Head(cmds), cycle)[2], Tail(cmds), cycle)

\* The executor's final text, as far as parseMemoryCommands reads it: the
\* MEMORY_COMMANDS blocks it holds, in order; a block is a JSON array of
\* commands or text that json.Unmarshal rejects.
Block(parses, cmds) == [parses |-> parses, cmds |-> cmds]

\* parseMemoryCommands: FindStringSubmatch takes the first block; no block or
\* an unparsable first block gives nil.
parseMemoryCommands(response) ==
  IF response = <<>> THEN <<>>
  ELSE IF ~Head(response).parses THEN <<>>
  ELSE Head(response).cmds

\* ------------------------------------------------------------------ the prompt
\* One line of the prompt text: what it is, and the number and the texts that
\* fmt.Sprintf puts in it ("" and 0 where the line has none).
Line(kind, n, s1, s2, s3) == [kind |-> kind, n |-> n, s1 |-> s1, s2 |-> s2, s3 |-> s3]

\* Number of observations the prompt shows.
RecentObservations == 5

\* Index before the first observation shown, all of them.
RecentStartAll(n) == 0

\* start := len(ctx.Observations) - 5; if start < 0 { start = 0 }
RecentStart(n) == IF n - RecentObservations < 0 THEN 0 ELSE n - RecentObservations

\* The lines of goal i and of the goals after it, every goal listed whatever
\* its status.
RECURSIVE GoalLinesAll(_, _)
GoalLinesAll(goals, i) ==
  IF i > Len(goals) THEN <<>>
  ELSE <<Line("goal", i, goals[i].priority, goals[i].title, goals[i].description)>>
       \o (IF Len(goals[i].progress) > 0
             THEN <<Line("latest", 0, goals[i].progress[Len(goals[i].progress)], "", "")>>
             ELSE <<>>)
       \o GoalLinesAll(goals, i + 1)

\* for i, goal := range goals.Goals: goals that are not active are skipped; an
\* active one gives its numbered title line with the description and, when it
\* has progress entries, the line of the last one.
RECURSIVE GoalLines(_, _)
GoalLines(goals, i) ==
  IF i > Len(goals) THEN <<>>
  ELSE IF goals[i].status # "active" THEN GoalLines(goals, i + 1)
  ELSE <<Line("goal", i, goals[i].priority, goals[i].title, goals[i].description)>>
       \o (IF Len(goals[i].progress) > 0
             THEN <<Line("latest", 0, goals[i].progress[Len(goals[i].progress)], "", "")>>
             ELSE <<>>)
       \o GoalLines(goals, i + 1)

\* "## Active Goals".
GoalsSection(goals) ==
  <<Line("goals_header", 0, "", "", "")>>
  \o (IF Len(goals) = 0 THEN <<Line("no_goals", 0, "", "", "")>> ELSE GoalLines(goals, 1))

\* "### Recent Observations": the last five.
ObservationsSection(obs) ==
  IF Len(obs) = 0 THEN <<>>
  ELSE <<Line("observations_header", 0, "", "", "")>>
       \o [j \in 1..(Len(obs) - RecentStart(Len(obs))) |->
             Line("observation", obs[RecentStart(Len(obs)) + j].cycle,
                  obs[RecentStart(Len(obs)) + j].content, "", "")]

\* "### Lessons Learned": all of them.
LessonsSection(lessons) ==
  IF Len(lessons) = 0 THEN <<>>
  ELSE <<Line("lessons_header", 0, "", "", "")>>
       \o [j \in 1..Len(lessons) |->
             Line("lesson", 0, lessons[j].content, lessons[j].confidence, "")]

\* A hypothesis filter that lets every status through.
IsTestingAny(hyp) == TRUE

\* hyp.Status == "testing"
IsTesting(hyp) == hyp.status = "testing"

\* "### Hypotheses Being Tested": those with status testing.
HypothesesSection(hyps) ==
  IF Len(hyps) = 0 THEN <<>>
  ELSE <<Line("hypotheses_header", 0, "", "", "")>>
       \o [j \in 1..Len(SelectSeq(hyps, IsTesting)) |->
             Line("hypothesis", 0, SelectSeq(hyps, IsTesting)[j].content, "", "")]

\* "### Strategies": all of them.
StrategiesSection(strats) ==
  IF Len(strats) = 0 THEN <<>>
  ELSE <<Line("strategies_header", 0, "", "", "")>>
       \o [j \in 1..Len(strats) |->
             Line("strategy", 0, strats[j].name, strats[j].description,
                  strats[j].effectiveness)]

\* BuildUserPrompt that writes the mission argument into the mission section.
BuildUserPromptWithMission(c, goals, mission, cycle, now) ==
  <<Line("header", cycle, "", "", ""),
    Line("time", now, "", "", ""),
    Line("mission", 0, mission, "", "")>>
  \o GoalsSection(goals.goals)
  \o <<Line("knowledge_header", 0, "", "", "")>>
  \o ObservationsSection(c.observations)
  \o LessonsSection(c.lessons)
  \o HypothesesSection(c.hypotheses)
  \o StrategiesSection(c.strategies)
  \o <<Line("this_cycle", 0, "", "", "")>>

\* BuildUserPrompt(ctx, goals, mission, cycleNumber), called at time now: the
\* header with the cycle number, the time line, the mission section (a fixed
\* text: the mission argument is not used), the goals, the knowledge and the
\* closing section.
BuildUserPrompt(c, goals, mission, cycle, now) ==
  <<Line("header", cycle, "", "", ""),
    Line("time", now, "", "", ""),
    Line("mission", 0, "", "", "")>>
  \o GoalsSection(goals.goals)
  \o <<Line("knowledge_header", 0, "", "", "")>>
  \o ObservationsSection(c.observations)
  \o LessonsSection(c.lessons)
  \o HypothesesSection(c.hypotheses)
  \o StrategiesSection(c.strategies)
  \o <<Line("this_cycle", 0, "", "", "")>>

\* AppendLog: the log afterwards; a failure to open or write appends nothing.
AppendLog(l, entry, ok) == IF ok THEN Append(l, entry) ELSE l

\* ------------------------------------------------------------- initial state
\* No process has started, no file exists: a fresh knowledge base.
Init ==
  /\ alive = [p \in Procs |-> TRUE]
  /\ pidFile = NoFile
  /\ pc = [p \in Procs |-> "idle"]
  /\ ret = [p \in Procs |-> "none"]
  /\ oldPID = [p \in Procs |-> NoFile]
  /\ running = [p \in Procs |-> FALSE]
  /\ raced = [p \in Procs |-> FALSE]
  /\ cycleNumber = [p \in Procs |-> 0]
  /\ ctxCancelled = [p \in Procs |-> FALSE]
  /\ sigPending = [p \in Procs |-> FALSE]
  /\ tickPending = [p \in Procs |-> FALSE]
  /\ ctx = [p \in Procs |-> createEmptyContext]
  /\ kbFile = FileAbsent
  /\ backups = <<>>
  /\ log = <<>>
  /\ inflight = [p \in Procs |-> 0]
  /\ starts = [p \in Procs |-> 0]
  /\ touched = [p \in Procs |-> FALSE]
  /\ stopped = [p \in Procs |-> FALSE]
  /\ completed = 0
  /\ lastCmds = <<>>
  /\ status = [by |-> 0, running |-> FALSE, pid |-> 0]
  /\ goalsFile = NoGoalsFile
  /\ missionFile = NoMissionFile
  /\ clock = 0
  /\ prompt = <<>>
  /\ usedNumbers = {}
  /\ session = [q \in Procs |-> 0]
  /\ agentError = [q \in Procs |-> FALSE]
  /\ memFiles = [path \in MemPaths |-> MemAbsent]
  /\ remembered = [path \in MemPaths |-> [key \in Keys |-> NoValue]]

\* ------------------------------------------------------------ the PID-file lock
\* A probe that never finds the process: every PID file counts as stale.
ProbeAliveNever(pid) == FALSE

\* A probe that finds every process: no PID file ever counts as stale.
ProbeAliveAlways(pid) == TRUE

\* The liveness probe: os.FindProcess(pid) and process.Signal(0) return nil.
\* Signal reports an error for PID 0 (what Sscanf leaves for an empty file).
ProbeAlive(pid) == pid \in Procs /\ alive[pid]

\* Start() is called; acquireLock reads heartbeat.pid (os.ReadFile).
AcqRead(p) ==
  /\ alive[p]
  /\ pc[p] \in {"idle", "returned"}
  /\ starts[p] < MaxStarts
  /\ starts' = [starts EXCEPT ![p] = @ + 1]
  /\ touched' = [touched EXCEPT ![p] = FALSE]
  /\ ret' = [ret EXCEPT ![p] = "none"]
  /\ IF pidFile = NoFile
       THEN /\ pc' = [pc EXCEPT ![p] = "acq_write"]
            /\ oldPID' = [oldPID EXCEPT ![p] = NoFile]
       ELSE /\ pc' = [pc EXCEPT ![p] = "acq_probe"]
            /\ oldPID' = [oldPID EXCEPT ![p] = pidFile]
  /\ UNCHANGED <<alive, pidFile, loopVars, storeVars, stopped, completed, lastCmds,
                 status>>
  /\ UNCHANGED <<promptVars, usedNumbers>>
  /\ UNCHANGED <<memVars, session, agentError>>

\* Start with the deferred releaseLock registered before acquireLock: the
\* "already running" error returns through releaseLock.
AcqProbeDeferredRelease(p) ==
  /\ alive[p]
  /\ pc[p] = "acq_probe"
  /\ IF oldPID[p] \in Procs /\ alive[oldPID[p]]
       THEN /\ pc' = [pc EXCEPT ![p] = "rel_read"]
            /\ ret' = [ret EXCEPT ![p] = "already_running"]
            /\ oldPID' = [oldPID EXCEPT ![p] = NoFile]
       ELSE /\ pc' = [pc EXCEPT ![p] = "acq_remove"]
            /\ UNCHANGED <<ret, oldPID>>
  /\ UNCHANGED <<alive, pidFile, loopVars, storeVars, histVars, status>>
  /\ UNCHANGED <<promptVars, usedNumbers>>
  /\ UNCHANGED <<memVars, session, agentError>>

\* acquireLock probes the process the file names: alive, it returns the
\* "already running" error and Start returns it (no deferred release yet).
AcqProbe(p) ==
  /\ alive[p]
  /\ pc[p] = "acq_probe"
  /\ IF ProbeAlive(oldPID[p])
       THEN /\ pc' = [pc EXCEPT ![p] = "returned"]
            /\ ret' = [ret EXCEPT ![p] = "already_running"]
            /\ oldPID' = [oldPID EXCEPT ![p] = NoFile]
       ELSE /\ pc' = [pc EXCEPT ![p] = "acq_remove"]
            /\ UNCHANGED <<ret, oldPID>>
  /\ UNCHANGED <<alive, pidFile, loopVars, storeVars, histVars, status>>
  /\ UNCHANGED <<promptVars, usedNumbers>>
  /\ UNCHANGED <<memVars, session, agentError>>

\* Stale PID file: os.Remove(s.pidFile) removes whatever file is there now.
AcqRemove(p) ==
  /\ alive[p]
  /\ pc[p] = "acq_remove"
  /\ pidFile' = NoFile
  /\ pc' = [pc EXCEPT ![p] = "acq_write"]
  /\ UNCHANGED <<alive, ret, oldPID, loopVars, storeVars, histVars, status>>
  /\ UNCHANGED <<promptVars, usedNumbers>>
  /\ UNCHANGED <<memVars, session, agentError>>

\* os.WriteFile(s.pidFile, own pid); a failure returns "failed to create PID
\* file" from Start.
AcqWrite(p, ok) ==
  /\ alive[p]
  /\ pc[p] = "acq_write"
  /\ IF ok
       THEN /\ pidFile' = p
            /\ pc' = [pc EXCEPT ![p] = "init"]
            /\ UNCHANGED <<ret, oldPID>>
       ELSE /\ pc' = [pc EXCEPT ![p] = "returned"]
            /\ ret' = [ret EXCEPT ![p] = "pid_write_failed"]
            /\ oldPID' = [oldPID EXCEPT ![p] = NoFile]
            /\ UNCHANGED pidFile
  /\ UNCHANGED <<alive, loopVars, storeVars, histVars, status>>
  /\ UNCHANGED <<promptVars, usedNumbers>>
  /\ UNCHANGED <<memVars, session, agentError>>

\* A releaseLock that never finds its own PID in the file: it leaves the PID
\* file where it is.
RelReadLeavesMarker(p) ==
  /\ alive[p]
  /\ pc[p] = "rel_read"
  /\ pc' = [pc EXCEPT ![p] = "returned"]
  /\ UNCHANGED <<lockVars, ret, loopVars, storeVars, histVars, status>>
  /\ UNCHANGED <<promptVars, usedNumbers>>
  /\ UNCHANGED <<memVars, session, agentError>>

\* releaseLock (deferred in Start) reads heartbeat.pid and compares it with
\* os.Getpid().
RelRead(p) ==
  /\ alive[p]
  /\ pc[p] = "rel_read"
  /\ pc' = [pc EXCEPT ![p] = IF pidFile = p THEN "rel_remove" ELSE "returned"]
  /\ UNCHANGED <<lockVars, ret, loopVars, storeVars, histVars, status>>
  /\ UNCHANGED <<promptVars, usedNumbers>>
  /\ UNCHANGED <<memVars, session, agentError>>

\* releaseLock: os.Remove(s.pidFile), which removes whatever file is there now.
RelRemove(p) ==
  /\ alive[p]
  /\ pc[p] = "rel_remove"
  /\ pidFile' = NoFile
  /\ pc' = [pc EXCEPT ![p] = "returned"]
  /\ UNCHANGED <<alive, oldPID, ret, loopVars, storeVars, histVars, status>>
  /\ UNCHANGED <<promptVars, usedNumbers>>
  /\ UNCHANGED <<memVars, session, agentError>>

\* GetStatus without the liveness probe: a PID file means running.
GetStatusResultNoProbe ==
  IF pidFile = NoFile THEN <<FALSE, 0>> ELSE <<TRUE, pidFile>>

\* GetStatus(): (running, pid).
GetStatusResult ==
  IF pidFile = NoFile THEN <<FALSE, 0>>
  ELSE IF ProbeAlive(pidFile) THEN <<TRUE, pidFile>>
  ELSE <<FALSE, 0>>

\* Process c calls the package function GetStatus.
GetStatus(c) ==
  /\ alive[c]
  /\ status' = [by |-> c, running |-> GetStatusResult[1], pid |-> GetStatusResult[2]]
  /\ UNCHANGED <<lockVars, pc, ret, loopVars, storeVars, histVars>>
  /\ UNCHANGED <<promptVars, usedNumbers>>
  /\ UNCHANGED <<memVars, session, agentError>>

\* The process dies (kill -9, power loss): nothing is released, its memory is
\* gone, the files stay as they are.
Crash(p) ==
  /\ alive[p]
  /\ pc[p] \notin {"idle", "returned"}
  /\ alive' = [alive EXCEPT ![p] = FALSE]
  /\ pc' = [pc EXCEPT ![p] = "dead"]
  /\ ret' = [ret EXCEPT ![p] = "none"]
  /\ oldPID' = [oldPID EXCEPT ![p] = NoFile]
  /\ running' = [running EXCEPT ![p] = FALSE]
  /\ raced' = [raced EXCEPT ![p] = FALSE]
  /\ sigPending' = [sigPending EXCEPT ![p] = FALSE]
  /\ tickPending' = [tickPending EXCEPT ![p] = FALSE]
  /\ ctx' = [ctx EXCEPT ![p] = createEmptyContext]
  /\ cycleNumber' = [cycleNumber EXCEPT ![p] = 0]
  /\ ctxCancelled' = [ctxCancelled EXCEPT ![p] = FALSE]
  /\ inflight' = [inflight EXCEPT ![p] = 0]
  /\ UNCHANGED <<pidFile, kbFile, backups, log, histVars, status>>
  /\ prompt' = <<>>
  /\ session' = [session EXCEPT ![p] = 0]
  /\ UNCHANGED <<goalsFile, missionFile, clock, usedNumbers>>
  /\ UNCHANGED memVars
  /\ agentError' = [agentError EXCEPT ![p] = FALSE]

\* ------------------------------------------------------------ Service.Start
\* Start after acquireLock: s.running = true, signal.Notify on a new sigChan,
\* the initial LoadContext, s.cycleNumber, the "Heartbeat Started" log entry
\* and the new ticker. A load failure returns through the deferred releaseLock.
InitLoad(p, readOk, logOk) ==
  /\ alive[p]
  /\ pc[p] = "init"
  /\ running' = [running EXCEPT ![p] = TRUE]
  /\ raced' = [raced EXCEPT ![p] = FALSE]
  /\ sigPending' = [sigPending EXCEPT ![p] = FALSE]
  /\ tickPending' = [tickPending EXCEPT ![p] = FALSE]
  /\ LET ld == LoadContext(kbFile, readOk) IN
       IF ld[1]
         THEN /\ cycleNumber' = [cycleNumber EXCEPT ![p] = ld[2].total_cycles]
              /\ log' = AppendLog(log, [kind |-> "started", cycle |-> ld[2].total_cycles,
                                        commands |-> 0], logOk)
              /\ touched' = [touched EXCEPT ![p] = TRUE]
              /\ pc' = [pc EXCEPT ![p] = "loop"]
              /\ UNCHANGED ret
         ELSE /\ ret' = [ret EXCEPT ![p] = "load_failed"]
              /\ pc' = [pc EXCEPT ![p] = "rel_read"]
              /\ UNCHANGED <<cycleNumber, log, touched>>
  /\ oldPID' = [oldPID EXCEPT ![p] = NoFile]
  /\ UNCHANGED <<alive, pidFile, ctxCancelled, ctx, kbFile, backups, inflight, starts,
                 stopped, completed, lastCmds, status>>
  /\ UNCHANGED <<promptVars, usedNumbers>>
  /\ UNCHANGED <<memVars, session, agentError>>

\* What the loop goroutine can read from s.running: Stop() writes the field
\* from another goroutine without synchronisation, so until the loop has
\* synchronised with it the read may still give the value written before.
RunningRead(p) == IF raced[p] THEN {running[p], TRUE} ELSE {running[p]}

\* for s.running { ... }: the condition holds, the loop blocks in select.
LoopCheck(p) ==
  /\ alive[p]
  /\ pc[p] = "loop"
  /\ TRUE \in RunningRead(p)
  /\ pc' = [pc EXCEPT ![p] = "select"]
  /\ UNCHANGED <<lockVars, ret, loopVars, storeVars, histVars, status>>
  /\ UNCHANGED <<promptVars, usedNumbers>>
  /\ UNCHANGED <<memVars, session, agentError>>

\* for s.running: the condition fails; "Heartbeat Stopped" is logged, Start
\* returns nil through the deferred ticker.Stop and releaseLock.
LoopExit(p, logOk) ==
  /\ alive[p]
  /\ pc[p] = "loop"
  /\ FALSE \in RunningRead(p)
  /\ log' = AppendLog(log, [kind |-> "stopped", cycle |-> cycleNumber[p],
                            commands |-> 0], logOk)
  /\ tickPending' = [tickPending EXCEPT ![p] = FALSE]
  /\ ret' = [ret EXCEPT ![p] = "nil"]
  /\ stopped' = [stopped EXCEPT ![p] = TRUE]
  /\ touched' = [touched EXCEPT ![p] = TRUE]
  /\ pc' = [pc EXCEPT ![p] = "rel_read"]
  /\ UNCHANGED <<lockVars, running, raced, cycleNumber, ctxCancelled, sigPending,
                 ctx, kbFile, backups, inflight, starts, completed, lastCmds,
                 status>>
  /\ UNCHANGED <<promptVars, usedNumbers>>
  /\ UNCHANGED <<memVars, session, agentError>>

\* A signal case that takes the signal and leaves s.running as it is.
SelectSignalIgnored(p) ==
  /\ alive[p]
  /\ pc[p] = "select"
  /\ sigPending[p]
  /\ sigPending' = [sigPending EXCEPT ![p] = FALSE]
  /\ pc' = [pc EXCEPT ![p] = "loop"]
  /\ UNCHANGED <<lockVars, ret, running, raced, cycleNumber, ctxCancelled, tickPending,
                 storeVars, histVars, status>>
  /\ UNCHANGED <<promptVars, usedNumbers>>
  /\ UNCHANGED <<memVars, session, agentError>>

\* select, case sig := <-sigChan.
SelectSignal(p) ==
  /\ alive[p]
  /\ pc[p] = "select"
  /\ sigPending[p]
  /\ sigPending' = [sigPending EXCEPT ![p] = FALSE]
  /\ running' = [running EXCEPT ![p] = FALSE]
  /\ raced' = [raced EXCEPT ![p] = FALSE]
  /\ pc' = [pc EXCEPT ![p] = "loop"]
  /\ UNCHANGED <<lockVars, ret, cycleNumber, ctxCancelled, tickPending, storeVars,
                 histVars, status>>
  /\ UNCHANGED <<promptVars, usedNumbers>>
  /\ UNCHANGED <<memVars, session, agentError>>

\* select, case <-s.ctx.Done().
SelectDone(p) ==
  /\ alive[p]
  /\ pc[p] = "select"
  /\ ctxCancelled[p]
  /\ running' = [running EXCEPT ![p] = FALSE]
  /\ raced' = [raced EXCEPT ![p] = FALSE]
  /\ pc' = [pc EXCEPT ![p] = "loop"]
  /\ UNCHANGED <<lockVars, ret, cycleNumber, ctxCancelled, sigPending, tickPending,
                 storeVars, histVars, status>>
  /\ UNCHANGED <<promptVars, usedNumbers>>
  /\ UNCHANGED <<memVars, session, agentError>>

\* The ticker's period elapses: a tick is put in ticker.C unless one is there.
Tick(p) ==
  /\ alive[p]
  /\ pc[p] \in {"loop", "select", "await"}
  /\ ~tickPending[p]
  /\ cycleNumber[p] < MaxCycle
  /\ tickPending' = [tickPending EXCEPT ![p] = TRUE]
  /\ UNCHANGED <<lockVars, pc, ret, running, raced, cycleNumber, ctxCancelled,
                 sigPending, storeVars, histVars, status>>
  /\ UNCHANGED <<promptVars, usedNumbers>>
  /\ UNCHANGED <<memVars, session, agentError>>

\* A signal that also cancels the service context.
SignalCancels(p) ==
  /\ alive[p]
  /\ pc[p] \in {"loop", "select", "await"}
  /\ ~sigPending[p]
  /\ sigPending' = [sigPending EXCEPT ![p] = TRUE]
  /\ ctxCancelled' = [ctxCancelled EXCEPT ![p] = TRUE]
  /\ UNCHANGED <<lockVars, pc, ret, running, raced, cycleNumber, tickPending,
                 storeVars, histVars, status>>
  /\ UNCHANGED <<promptVars, usedNumbers>>
  /\ UNCHANGED <<memVars, session, agentError>>

\* SIGINT or SIGTERM is delivered while signal.Notify has the loop's channel
\* registered: it is put in sigChan unless one is there.
Signal(p) ==
  /\ alive[p]
  /\ pc[p] \in {"loop", "select", "await"}
  /\ ~sigPending[p]
  /\ sigPending' = [sigPending EXCEPT ![p] = TRUE]
  /\ UNCHANGED <<lockVars, pc, ret, running, raced, cycleNumber, ctxCancelled,
                 tickPending, storeVars, histVars, status>>
  /\ UNCHANGED <<promptVars, usedNumbers>>
  /\ UNCHANGED <<memVars, session, agentError>>

\* A Stop that also puts an empty goal set and an empty mission in place.
StopResetsGoals(p) ==
  /\ alive[p]
  /\ running[p] \/ ~ctxCancelled[p]
  /\ running' = [running EXCEPT ![p] = FALSE]
  /\ ctxCancelled' = [ctxCancelled EXCEPT ![p] = TRUE]
  /\ raced' = [raced EXCEPT ![p] = pc[p] \in {"loop", "select", "await"}]
  /\ goalsFile' = NoGoalsFile
  /\ missionFile' = NoMissionFile
  /\ UNCHANGED <<lockVars, pc, ret, cycleNumber, sigPending, tickPending,
                 storeVars, histVars, status, clock, prompt, usedNumbers>>
  /\ UNCHANGED <<memVars, session, agentError>>

\* Service.Stop(), called from another goroutine: s.running = false; s.cancel().
Stop(p) ==
  /\ alive[p]
  /\ running[p] \/ ~ctxCancelled[p]
  /\ running' = [running EXCEPT ![p] = FALSE]
  /\ ctxCancelled' = [ctxCancelled EXCEPT ![p] = TRUE]
  /\ raced' = [raced EXCEPT ![p] = pc[p] \in {"loop", "select", "await"}]
  /\ UNCHANGED <<lockVars, pc, ret, cycleNumber, sigPending, tickPending,
                 storeVars, histVars, status>>
  /\ UNCHANGED <<promptVars, usedNumbers>>
  /\ UNCHANGED <<memVars, session, agentError>>

\* ---------------------------------------------------------- Service.runCycle
\* The steps of runCycle before the delegation that can fail.
CycleSteps == {"none", "load_goals", "load_mission", "session", "run"}

\* runCycle that returns to the loop as soon as CoderAgentRun has handed back
\* the done channel, without receiving from it.
CycleBeginDetached(p, readOk, failAt) ==
  /\ alive[p]
  /\ pc[p] = "select"
  /\ tickPending[p]
  /\ tickPending' = [tickPending EXCEPT ![p] = FALSE]
  /\ cycleNumber' = [cycleNumber EXCEPT ![p] = @ + 1]
  /\ touched' = [touched EXCEPT ![p] = TRUE]
  /\ inflight' = [inflight EXCEPT ![p] =
                    IF LoadContext(kbFile, readOk)[1] /\ failAt = "none" THEN @ + 1 ELSE @]
  /\ pc' = [pc EXCEPT ![p] = "loop"]
  /\ UNCHANGED <<lockVars, ret, running, raced, ctxCancelled, sigPending, ctx, kbFile,
                 backups, log, starts, stopped, completed, lastCmds, status>>
  /\ prompt' = <<>>
  /\ session' = [session EXCEPT ![p] = 0]
  /\ UNCHANGED <<goalsFile, missionFile, clock>>
  /\ usedNumbers' = usedNumbers \cup {cycleNumber[p] + 1}
  /\ UNCHANGED memVars
  /\ agentError' = [agentError EXCEPT ![p] = FALSE]

\* runCycle that persists the cycle count before it returns an error.
CycleBeginSavesOnAbort(p, readOk, failAt) ==
  /\ alive[p]
  /\ pc[p] = "select"
  /\ tickPending[p]
  /\ tickPending' = [tickPending EXCEPT ![p] = FALSE]
  /\ cycleNumber' = [cycleNumber EXCEPT ![p] = @ + 1]
  /\ touched' = [touched EXCEPT ![p] = TRUE]
  /\ LET ld == LoadContext(kbFile, readOk) IN
       IF ld[1] /\ failAt = "none"
         THEN /\ ctx' = [ctx EXCEPT ![p] = ld[2]]
              /\ inflight' = [inflight EXCEPT ![p] = @ + 1]
              /\ pc' = [pc EXCEPT ![p] = "await"]
              /\ UNCHANGED kbFile
         ELSE /\ pc' = [pc EXCEPT ![p] = "loop"]
              /\ kbFile' = FileOf([ld[2] EXCEPT !.total_cycles = cycleNumber[p] + 1])
              /\ UNCHANGED <<ctx, inflight>>
  /\ UNCHANGED <<lockVars, ret, running, raced, ctxCancelled, sigPending,
                 backups, log, starts, stopped, completed, lastCmds, status>>
  /\ session' = [session EXCEPT ![p] =
                  IF LoadContext(kbFile, readOk)[1] /\ failAt = "none"
                    THEN cycleNumber[p] + 1 ELSE 0]
  /\ prompt' = IF LoadContext(kbFile, readOk)[1] /\ failAt = "none"
                 THEN BuildUserPrompt(LoadContext(kbFile, readOk)[2], goalsFile,
                                      missionFile, cycleNumber[p] + 1, clock)
                 ELSE <<>>
  /\ UNCHANGED <<goalsFile, missionFile, clock>>
  /\ usedNumbers' = usedNumbers \cup {cycleNumber[p] + 1}
  /\ UNCHANGED memVars
  /\ agentError' = [agentError EXCEPT ![p] = FALSE]

\* select, case <-ticker.C: runCycle up to the delegation. s.cycleNumber++,
\* LoadContext, LoadGoals, LoadMission, SessionsCreate(s.ctx),
\* CoderAgentRun(s.ctx): the first failure returns the error to the loop.
CycleBegin(p, readOk, failAt) ==
  /\ alive[p]
  /\ pc[p] = "select"
  /\ tickPending[p]
  /\ tickPending' = [tickPending EXCEPT ![p] = FALSE]
  /\ cycleNumber' = [cycleNumber EXCEPT ![p] = @ + 1]
  /\ touched' = [touched EXCEPT ![p] = TRUE]
  /\ LET ld == LoadContext(kbFile, readOk) IN
       IF ld[1] /\ failAt = "none"
         THEN /\ ctx' = [ctx EXCEPT ![p] = ld[2]]
              /\ inflight' = [inflight EXCEPT ![p] = @ + 1]
              /\ pc' = [pc EXCEPT ![p] = "await"]
         ELSE /\ pc' = [pc EXCEPT ![p] = "loop"]
              /\ UNCHANGED <<ctx, inflight>>
  /\ UNCHANGED <<lockVars, ret, running, raced, ctxCancelled, sigPending, kbFile,
                 backups, log, starts, stopped, completed, lastCmds, status>>
  /\ session' = [session EXCEPT ![p] =
                  IF LoadContext(kbFile, readOk)[1] /\ failAt = "none"
                    THEN cycleNumber[p] + 1 ELSE 0]
  /\ prompt' = IF LoadContext(kbFile, readOk)[1] /\ failAt = "none"
                 THEN BuildUserPrompt(LoadContext(kbFile, readOk)[2], goalsFile,
                                      missionFile, cycleNumber[p] + 1, clock)
                 ELSE <<>>
  /\ UNCHANGED <<goalsFile, missionFile, clock>>
  /\ usedNumbers' = usedNumbers \cup {cycleNumber[p] + 1}
  /\ UNCHANGED memVars
  /\ agentError' = [agentError EXCEPT ![p] = FALSE]

\* runCycle that returns an error, before it saves, when the executor's output
\* yields no command.
CycleFinishRejectsBadBlock(p, response, backupOk, saveOutcome, logOk) ==
  /\ alive[p]
  /\ pc[p] = "await"
  /\ inflight[p] > 0
  /\ LET memoryCommands == parseMemoryCommands(response)
         executed == ExecuteAll(ctx[p], memoryCommands, cycleNumber[p])
         updated == [executed EXCEPT !.total_cycles = cycleNumber[p]]
     IN
       /\ lastCmds' = memoryCommands
       /\ IF Len(memoryCommands) = 0
            THEN UNCHANGED <<backups, kbFile, log, completed>>
            ELSE /\ backups' = BackupContext(backups, kbFile, cycleNumber[p], backupOk)
                 /\ kbFile' = SaveContext(kbFile, updated, saveOutcome)
                 /\ IF saveOutcome = "ok"
                      THEN /\ log' = AppendLog(log, [kind |-> "cycle",
                                                     cycle |-> cycleNumber[p],
                                                     commands |-> Len(memoryCommands)], logOk)
                           /\ completed' = completed + 1
                      ELSE UNCHANGED <<log, completed>>
  /\ ctx' = [ctx EXCEPT ![p] = createEmptyContext]
  /\ inflight' = [inflight EXCEPT ![p] = @ - 1]
  /\ pc' = [pc EXCEPT ![p] = "loop"]
  /\ UNCHANGED <<lockVars, ret, loopVars, starts, touched, stopped, status>>
  /\ prompt' = <<>>
  /\ session' = [session EXCEPT ![p] = 0]
  /\ UNCHANGED <<goalsFile, missionFile, clock, usedNumbers>>
  /\ UNCHANGED memVars
  /\ UNCHANGED agentError

\* runCycle that saves first and makes the backup afterwards.
CycleFinishBackupLast(p, response, backupOk, saveOutcome, logOk) ==
  /\ alive[p]
  /\ pc[p] = "await"
  /\ inflight[p] > 0
  /\ LET memoryCommands == parseMemoryCommands(response)
         executed == IF Len(memoryCommands) > 0
                       THEN ExecuteAll(ctx[p], memoryCommands, cycleNumber[p])
                       ELSE ctx[p]
         updated == [executed EXCEPT !.total_cycles = cycleNumber[p]]
     IN
       /\ lastCmds' = memoryCommands
       /\ kbFile' = SaveContext(kbFile, updated, saveOutcome)
       /\ backups' = IF Len(memoryCommands) > 0
                       THEN BackupContext(backups, SaveContext(kbFile, updated, saveOutcome),
                                          cycleNumber[p], backupOk)
                       ELSE backups
       /\ IF saveOutcome = "ok"
            THEN /\ log' = AppendLog(log, [kind |-> "cycle", cycle |-> cycleNumber[p],
                                           commands |-> Len(memoryCommands)], logOk)
                 /\ completed' = completed + 1
            ELSE UNCHANGED <<log, completed>>
  /\ ctx' = [ctx EXCEPT ![p] = createEmptyContext]
  /\ inflight' = [inflight EXCEPT ![p] = @ - 1]
  /\ pc' = [pc EXCEPT ![p] = "loop"]
  /\ UNCHANGED <<lockVars, ret, loopVars, starts, touched, stopped, status>>
  /\ prompt' = <<>>
  /\ session' = [session EXCEPT ![p] = 0]
  /\ UNCHANGED <<goalsFile, missionFile, clock, usedNumbers>>
  /\ UNCHANGED memVars
  /\ UNCHANGED agentError

\* The executor reports an error during the run: an event with Error set
\* arrives before its channel is closed. The adapter goroutine logs "Agent
\* error" and goes on reading events; nothing reaches runCycle, which waits
\* for done.
AgentError(p) ==
  /\ alive[p]
  /\ pc[p] = "await"
  /\ inflight[p] > 0
  /\ ~agentError[p]
  /\ agentError' = [agentError EXCEPT ![p] = TRUE]
  /\ UNCHANGED <<lockVars, pc, ret, loopVars, storeVars, histVars, status>>
  /\ UNCHANGED <<promptVars, usedNumbers, session, memVars>>

\* runCycle that returns an error after <-done, before it parses and saves,
\* when the executor reported an error during the run.
CycleFinishAbortsOnAgentError(p, response, backupOk, saveOutcome, logOk) ==
  IF agentError[p]
    THEN /\ alive[p]
         /\ pc[p] = "await"
         /\ inflight[p] > 0
         /\ ctx' = [ctx EXCEPT ![p] = createEmptyContext]
         /\ inflight' = [inflight EXCEPT ![p] = @ - 1]
         /\ pc' = [pc EXCEPT ![p] = "loop"]
         /\ UNCHANGED <<lockVars, ret, loopVars, kbFile, backups, log, histVars,
                        status>>
         /\ prompt' = <<>>
         /\ session' = [session EXCEPT ![p] = 0]
         /\ UNCHANGED <<goalsFile, missionFile, clock, usedNumbers>>
         /\ UNCHANGED <<memVars, agentError>>
    ELSE
         /\ alive[p]
         /\ pc[p] = "await"
         /\ inflight[p] > 0
         /\ LET memoryCommands == parseMemoryCommands(response)
                executed == IF Len(memoryCommands) > 0
                              THEN ExecuteAll(ctx[p], memoryCommands, cycleNumber[p])
                              ELSE ctx[p]
                updated == [executed EXCEPT !.total_cycles = cycleNumber[p]]
            IN
              /\ lastCmds' = memoryCommands
              /\ backups' = IF Len(memoryCommands) > 0
                              THEN BackupContext(backups, kbFile, cycleNumber[p], backupOk)
                              ELSE backups
              /\ kbFile' = SaveContext(kbFile, updated, saveOutcome)
              /\ IF saveOutcome = "ok"
                   THEN /\ log' = AppendLog(log, [kind |-> "cycle", cycle |-> cycleNumber[p],
                                                  commands |-> Len(memoryCommands)], logOk)
                        /\ completed' = completed + 1
                   ELSE UNCHANGED <<log, completed>>
         /\ ctx' = [ctx EXCEPT ![p] = createEmptyContext]
         /\ inflight' = [inflight EXCEPT ![p] = @ - 1]
         /\ pc' = [pc EXCEPT ![p] = "loop"]
         /\ UNCHANGED <<lockVars, ret, loopVars, starts, touched, stopped, status>>
         /\ prompt' = <<>>
         /\ session' = [session EXCEPT ![p] = 0]
         /\ UNCHANGED <<goalsFile, missionFile, clock, usedNumbers>>
         /\ UNCHANGED memVars
         /\ UNCHANGED agentError

\* <-done: the executor's event channel has closed. runCycle goes on with
\* CoderAgentGetLastResponse, parseMemoryCommands, the backup and the commands
\* when there are any, TotalCycles, SaveContext and the log entry.
CycleFinish(p, response, backupOk, saveOutcome, logOk) ==
  /\ alive[p]
  /\ pc[p] = "await"
  /\ inflight[p] > 0
  /\ LET memoryCommands == parseMemoryCommands(response)
         executed == IF Len(memoryCommands) > 0
                       THEN ExecuteAll(ctx[p], memoryCommands, cycleNumber[p])
                       ELSE ctx[p]
         updated == [executed EXCEPT !.total_cycles = cycleNumber[p]]
     IN
       /\ lastCmds' = memoryCommands
       /\ backups' = IF Len(memoryCommands) > 0
                       THEN BackupContext(backups, kbFile, cycleNumber[p], backupOk)
                       ELSE backups
       /\ kbFile' = SaveContext(kbFile, updated, saveOutcome)
       /\ IF saveOutcome = "ok"
            THEN /\ log' = AppendLog(log, [kind |-> "cycle", cycle |-> cycleNumber[p],
                                           commands |-> Len(memoryCommands)], logOk)
                 /\ completed' = completed + 1
            ELSE UNCHANGED <<log, completed>>
  /\ ctx' = [ctx EXCEPT ![p] = createEmptyContext]
  /\ inflight' = [inflight EXCEPT ![p] = @ - 1]
  /\ pc' = [pc EXCEPT ![p] = "loop"]
  /\ UNCHANGED <<lockVars, ret, loopVars, starts, touched, stopped, status>>
  /\ prompt' = <<>>
  /\ session' = [session EXCEPT ![p] = 0]
  /\ UNCHANGED <<goalsFile, missionFile, clock, usedNumbers>>
  /\ UNCHANGED memVars
  /\ UNCHANGED agentError

\* What a process killed inside os.WriteFile(context.json) leaves behind: the
\* file not yet opened, opened and truncated with none or part of the data
\* written, or all of it written.
CrashOutcomes == {"old", "partial", "new"}

\* The process dies (kill -9, power loss) while SaveContext of runCycle is
\* writing context.json; the backup, when the cycle had commands, was made
\* before.
CrashInSave(p, response, backupOk, left) ==
  /\ alive[p]
  /\ pc[p] = "await"
  /\ inflight[p] > 0
  /\ LET memoryCommands == parseMemoryCommands(response)
         executed == IF Len(memoryCommands) > 0
                       THEN ExecuteAll(ctx[p], memoryCommands, cycleNumber[p])
                       ELSE ctx[p]
         updated == [executed EXCEPT !.total_cycles = cycleNumber[p]]
     IN
       /\ lastCmds' = memoryCommands
       /\ backups' = IF Len(memoryCommands) > 0
                       THEN BackupContext(backups, kbFile, cycleNumber[p], backupOk)
                       ELSE backups
       /\ kbFile' = CASE left = "old" -> kbFile
                      [] left = "partial" -> FileCorrupt
                      [] left = "new" -> FileOf(updated)
  /\ alive' = [alive EXCEPT ![p] = FALSE]
  /\ pc' = [pc EXCEPT ![p] = "dead"]
  /\ ret' = [ret EXCEPT ![p] = "none"]
  /\ running' = [running EXCEPT ![p] = FALSE]
  /\ raced' = [raced EXCEPT ![p] = FALSE]
  /\ sigPending' = [sigPending EXCEPT ![p] = FALSE]
  /\ tickPending' = [tickPending EXCEPT ![p] = FALSE]
  /\ ctx' = [ctx EXCEPT ![p] = createEmptyContext]
  /\ cycleNumber' = [cycleNumber EXCEPT ![p] = 0]
  /\ ctxCancelled' = [ctxCancelled EXCEPT ![p] = FALSE]
  /\ inflight' = [inflight EXCEPT ![p] = 0]
  /\ UNCHANGED <<pidFile, oldPID, log, starts, touched, stopped, completed, status>>
  /\ prompt' = <<>>
  /\ session' = [session EXCEPT ![p] = 0]
  /\ UNCHANGED <<goalsFile, missionFile, clock, usedNumbers>>
  /\ UNCHANGED memVars
  /\ agentError' = [agentError EXCEPT ![p] = FALSE]

\* ------------------------------------------------------------- specifications
\* Executor outputs the scheduler is run against.
ObsX == Cmd("add_observation", "X", Absent, Absent, Absent)
ObsNum == Cmd("add_observation", NumVal, Absent, Absent, Absent)
LessonHigh == Cmd("add_lesson", "X", "high", Absent, Absent)

Responses ==
  { <<>>,
    <<Block(FALSE, <<>>)>>,
    <<Block(TRUE, <<>>)>>,
    <<Block(TRUE, <<ObsNum>>)>>,
    <<Block(TRUE, <<ObsNum, LessonHigh>>)>> }

\* The Service of one heartbeat process, alone on its home directory (no PID
\* file is ever there when it starts, so acquireLock goes straight to its
\* write), with every outcome of its environment: read and write failures of
\* the files, executor outputs, ticks, signals, Stop(), a crash, and Start()
\* called again after it returned.
Alone == {p \in Procs : \A q \in Procs : p <= q}

Next ==
  \E p \in Alone :
    \/ AcqRead(p)
    \/ \E ok \in BOOLEAN : AcqWrite(p, ok)
    \/ \E readOk \in BOOLEAN : InitLoad(p, readOk, TRUE)
    \/ LoopCheck(p)
    \/ LoopExit(p, TRUE)
    \/ SelectSignal(p)
    \/ SelectDone(p)
    \/ Tick(p)
    \/ Signal(p)
    \/ Stop(p)
    \/ \E readOk \in BOOLEAN, failAt \in CycleSteps : CycleBegin(p, readOk, failAt)
    \/ \E response \in Responses, backupOk \in BOOLEAN, saveOutcome \in WriteOutcomes :
         CycleFinish(p, response, backupOk, saveOutcome, TRUE)
    \/ RelRead(p)
    \/ RelRemove(p)
    \/ Crash(p)
    \/ \E response \in Responses, backupOk \in BOOLEAN, left \in CrashOutcomes :
         CrashInSave(p, response, backupOk, left)

Spec == Init /\ [][Next]_vars

\* A process runs "heartbeat start" once: one Service, one Start() call.
StartOnce(p) == starts[p] = 0 /\ AcqRead(p)

\* Several heartbeat processes started at any moment against one home
\* directory, every step of acquireLock and releaseLock interleaved, each
\* process stopped by a signal or killed; no tick falls due and the file system
\* does not fail. Any process may ask GetStatus at any moment.
NextLock ==
  \E p \in Procs :
    \/ StartOnce(p)
    \/ AcqProbe(p)
    \/ AcqRemove(p)
    \/ AcqWrite(p, TRUE)
    \/ InitLoad(p, TRUE, TRUE)
    \/ LoopCheck(p)
    \/ LoopExit(p, TRUE)
    \/ SelectSignal(p)
    \/ Signal(p)
    \/ RelRead(p)
    \/ RelRemove(p)
    \/ Crash(p)
    \/ GetStatus(p)

SpecLock == Init /\ [][NextLock]_vars

\* Executor output for the runs that are about stopping: a block with an
\* invalid and a valid command, so that every cycle that completes backs up,
\* applies and saves.
LiveResponses == { <<Block(TRUE, <<ObsNum, LessonHigh>>)>> }

\* The Service of one process that does not die. The goroutine of Start
\* keeps taking its steps; select chooses at random among its ready cases, so
\* a case that is ready again and again is taken in the end; and every
\* delegation ends: the executor closes its event channel. Backups succeed.
NextLive ==
  \E p \in Alone :
    \/ AcqRead(p)
    \/ \E ok \in BOOLEAN : AcqWrite(p, ok)
    \/ \E readOk \in BOOLEAN : InitLoad(p, readOk, TRUE)
    \/ LoopCheck(p)
    \/ LoopExit(p, TRUE)
    \/ SelectSignal(p)
    \/ SelectDone(p)
    \/ Tick(p)
    \/ Signal(p)
    \/ Stop(p)
    \/ \E readOk \in BOOLEAN, failAt \in CycleSteps : CycleBegin(p, readOk, failAt)
    \/ \E response \in LiveResponses, saveOutcome \in WriteOutcomes :
         CycleFinish(p, response, TRUE, saveOutcome, TRUE)
    \/ RelRead(p)
    \/ RelRemove(p)

ExecutorCompletes(p) ==
  \E response \in LiveResponses, saveOutcome \in WriteOutcomes :
    CycleFinish(p, response, TRUE, saveOutcome, TRUE)

Fairness(p) ==
  /\ WF_vars(LoopCheck(p))
  /\ WF_vars(LoopExit(p, TRUE))
  /\ SF_vars(SelectSignal(p))
  /\ SF_vars(SelectDone(p))
  /\ WF_vars(ExecutorCompletes(p))
  /\ WF_vars(RelRead(p))
  /\ WF_vars(RelRemove(p))

SpecLive == Init /\ [][NextLive]_vars /\ \A p \in Alone : Fairness(p)

\* Commands an executor can put in a block: every kind with its required
\* fields present, missing or of the wrong type, an optional field of the wrong
\* type, an unknown kind and a missing kind.
CmdSet ==
  { ObsX, ObsNum, LessonHigh,
    Cmd("add_observation", Absent, Absent, Absent, Absent),
    Cmd("add_lesson", "X", NumVal, Absent, Absent),
    Cmd("add_lesson", "X", Absent, Absent, Absent),
    Cmd("add_hypothesis", "X", Absent, Absent, Absent),
    Cmd("add_hypothesis", NumVal, Absent, Absent, Absent),
    Cmd("add_strategy", Absent, Absent, "X", "high"),
    Cmd("add_strategy", Absent, Absent, "X", Absent),
    Cmd("add_strategy", Absent, Absent, NumVal, "X"),
    Cmd("prune_old", Absent, Absent, Absent, Absent),
    Cmd("prune_old", "X", "high", "X", "X"),
    Cmd("bogus", "X", Absent, Absent, Absent),
    Cmd("", "X", Absent, Absent, Absent) }

CmdLists == UNION { [1..n -> CmdSet] : n \in 0..MaxCmds }

\* Knowledge bases a cycle can find: none yet, or the one a first cycle left
\* that applied an observation and a lesson.
PriorCmds == { <<>>, <<ObsX, LessonHigh>> }

\* A Service waiting for the executor in its first cycle on a fresh knowledge
\* base, or in its second cycle after a first one that applied two commands.
InitApply ==
  \E prior \in PriorCmds, p \in Alone :
    LET n == IF prior = <<>> THEN 0 ELSE 1
        kb == [ExecuteAll(createEmptyContext, prior, 1) EXCEPT !.total_cycles = n]
        started == [kind |-> "started", cycle |-> 0, commands |-> 0]
    IN
      /\ alive = [q \in Procs |-> TRUE]
      /\ pidFile = p
      /\ pc = [q \in Procs |-> IF q = p THEN "await" ELSE "idle"]
      /\ ret = [q \in Procs |-> "none"]
      /\ oldPID = [q \in Procs |-> NoFile]
      /\ running = [q \in Procs |-> q = p]
      /\ raced = [q \in Procs |-> FALSE]
      /\ cycleNumber = [q \in Procs |-> IF q = p THEN n + 1 ELSE 0]
      /\ ctxCancelled = [q \in Procs |-> FALSE]
      /\ sigPending = [q \in Procs |-> FALSE]
      /\ tickPending = [q \in Procs |-> FALSE]
      /\ ctx = [q \in Procs |-> IF q = p THEN kb ELSE createEmptyContext]
      /\ kbFile = IF n = 0 THEN FileAbsent ELSE FileOf(kb)
      /\ backups = <<>>
      /\ log = IF n = 0 THEN <<started>>
                ELSE <<started, [kind |-> "cycle", cycle |-> 1, commands |-> Len(prior)]>>
      /\ inflight = [q \in Procs |-> IF q = p THEN 1 ELSE 0]
      /\ starts = [q \in Procs |-> IF q = p THEN 1 ELSE 0]
      /\ touched = [q \in Procs |-> q = p]
      /\ stopped = [q \in Procs |-> FALSE]
      /\ completed = n
      /\ lastCmds = prior
      /\ status = [by |-> 0, running |-> FALSE, pid |-> 0]
      /\ goalsFile = NoGoalsFile
      /\ missionFile = NoMissionFile
      /\ clock = 0
      /\ prompt = BuildUserPrompt(kb, NoGoalsFile, NoMissionFile, n + 1, 0)
      /\ usedNumbers = 1..(n + 1)
      /\ session = [q \in Procs |-> IF q = p THEN n + 1 ELSE 0]
      /\ agentError = [q \in Procs |-> FALSE]
      /\ memFiles = [path \in MemPaths |-> MemAbsent]
      /\ remembered = [path \in MemPaths |-> [key \in Keys |-> NoValue]]

\* The second part of runCycle on every block of commands.
NextApply ==
  \E p \in Alone, cmds \in CmdLists, backupOk \in BOOLEAN, saveOutcome \in WriteOutcomes :
    CycleFinish(p, <<Block(TRUE, cmds)>>, backupOk, saveOutcome, TRUE)

SpecApply == InitApply /\ [][NextApply]_vars

\* Executor outputs with no block, with one block (unparsable, empty, one
\* command) and with two blocks.
Outputs ==
  Responses
  \cup { <<Block(TRUE, <<c>>)>> : c \in CmdSet }
  \cup { <<Block(TRUE, <<c>>), Block(TRUE, <<d>>)>> : c, d \in CmdSet }
  \cup { <<Block(FALSE, <<>>), Block(TRUE, <<c>>)>> : c \in CmdSet }

\* The second part of runCycle on every output.
NextOutput ==
  \E p \in Alone, response \in Outputs, backupOk \in BOOLEAN, saveOutcome \in WriteOutcomes :
    CycleFinish(p, response, backupOk, saveOutcome, TRUE)

SpecOutput == InitApply /\ [][NextOutput]_vars

\* A goal as goals.json holds it.
Titles == <<"T1", "T2", "T3">>
Goal(id, st, progress) ==
  [id |-> id, title |-> Titles[id], description |-> "D", priority |-> "high",
   status |-> st, progress |-> progress]

\* Goal lists: none, one goal of each status, active goals with and without
\* progress entries among completed and paused ones.
GoalLists ==
  { <<>>,
    <<Goal(1, "active", <<>>)>>,
    <<Goal(1, "active", <<"P1", "P2">>)>>,
    <<Goal(1, "completed", <<"P1">>)>>,
    <<Goal(1, "paused", <<>>), Goal(2, "active", <<"P1">>)>>,
    <<Goal(1, "completed", <<>>), Goal(2, "paused", <<"P1">>)>>,
    <<Goal(1, "active", <<"P2", "P1">>), Goal(2, "active", <<>>)>>,
    <<Goal(1, "active", <<"P1", "P2">>), Goal(2, "completed", <<"P1">>),
      Goal(3, "active", <<>>)>> }

\* goals.json with ids 1..n given out and next_id = n + 1.
GoalFiles == { [goals |-> g, next_id |-> Len(g) + 1] : g \in GoalLists }

\* mission.md: missing, or a text.
MissionFiles == {NoMissionFile, "M"}

\* next_id > max existing id, and no id twice.
GoalSetOk(gf) ==
  /\ \A i \in 1..Len(gf.goals) : gf.goals[i].id < gf.next_id
  /\ \A i, j \in 1..Len(gf.goals) : gf.goals[i].id = gf.goals[j].id => i = j

\* The Service before its first Start, beside a goals.json and a mission.md
\* that somebody else wrote.
InitGoals ==
  /\ alive = [p \in Procs |-> TRUE]
  /\ pidFile = NoFile
  /\ pc = [p \in Procs |-> "idle"]
  /\ ret = [p \in Procs |-> "none"]
  /\ oldPID = [p \in Procs |-> NoFile]
  /\ running = [p \in Procs |-> FALSE]
  /\ raced = [p \in Procs |-> FALSE]
  /\ cycleNumber = [p \in Procs |-> 0]
  /\ ctxCancelled = [p \in Procs |-> FALSE]
  /\ sigPending = [p \in Procs |-> FALSE]
  /\ tickPending = [p \in Procs |-> FALSE]
  /\ ctx = [p \in Procs |-> createEmptyContext]
  /\ kbFile = FileAbsent
  /\ backups = <<>>
  /\ log = <<>>
  /\ inflight = [p \in Procs |-> 0]
  /\ starts = [p \in Procs |-> 0]
  /\ touched = [p \in Procs |-> FALSE]
  /\ stopped = [p \in Procs |-> FALSE]
  /\ completed = 0
  /\ lastCmds = <<>>
  /\ status = [by |-> 0, running |-> FALSE, pid |-> 0]
  /\ \E g \in {<<>>, <<Goal(1, "completed", <<"P1">>), Goal(2, "active", <<>>)>>} :
       goalsFile = [goals |-> g, next_id |-> Len(g) + 1]
  /\ missionFile \in MissionFiles
  /\ clock = 0
  /\ prompt = <<>>
  /\ usedNumbers = {}
  /\ session = [q \in Procs |-> 0]
  /\ agentError = [q \in Procs |-> FALSE]
  /\ memFiles = [path \in MemPaths |-> MemAbsent]
  /\ remembered = [path \in MemPaths |-> [key \in Keys |-> NoValue]]

SpecGoals == InitGoals /\ [][NextLive]_vars

\* Knowledge bases the prompt is built from: n observations, one per cycle,
\* with or without two lessons and two strategies, and hypotheses of every
\* status.
Obs(i) == [content |-> "X", cycle |-> i]
LessonLists ==
  { <<>>, <<[content |-> "L1", cycle |-> 1, confidence |-> "high"],
            [content |-> "L2", cycle |-> 1, confidence |-> ""]>> }
Hyp(content, st) == [content |-> content, cycle |-> 1, status |-> st]
HypothesisLists ==
  { <<>>,
    <<Hyp("H1", "testing")>>,
    <<Hyp("H1", "validated")>>,
    <<Hyp("H1", "rejected"), Hyp("H2", "validated")>>,
    <<Hyp("H1", "validated"), Hyp("H2", "testing")>>,
    <<Hyp("H1", "testing"), Hyp("H2", "rejected"), Hyp("H3", "testing")>> }
StrategyLists ==
  { <<>>, <<[name |-> "S1", description |-> "D", cycle |-> 1, effectiveness |-> ""],
            [name |-> "S2", description |-> "D", cycle |-> 1, effectiveness |-> "high"]>> }
KnowledgeBases ==
  { [observations |-> [i \in 1..n |-> Obs(i)], lessons |-> ls, hypotheses |-> hs,
     strategies |-> ss, total_cycles |-> n + 1] :
      n \in 0..MaxObs, ls \in LessonLists, hs \in HypothesisLists, ss \in StrategyLists }

\* A Service in its loop with a tick waiting, beside the context.json,
\* goals.json and mission.md of earlier cycles, at some time of day.
InitPrompt ==
  \E kb \in KnowledgeBases, gf \in GoalFiles, mf \in MissionFiles, now \in 0..MaxClock,
     p \in Alone :
    /\ alive = [q \in Procs |-> TRUE]
    /\ pidFile = p
    /\ pc = [q \in Procs |-> IF q = p THEN "select" ELSE "idle"]
    /\ ret = [q \in Procs |-> "none"]
    /\ oldPID = [q \in Procs |-> NoFile]
    /\ running = [q \in Procs |-> q = p]
    /\ raced = [q \in Procs |-> FALSE]
    /\ cycleNumber = [q \in Procs |-> IF q = p THEN kb.total_cycles ELSE 0]
    /\ ctxCancelled = [q \in Procs |-> FALSE]
    /\ sigPending = [q \in Procs |-> FALSE]
    /\ tickPending = [q \in Procs |-> q = p]
    /\ ctx = [q \in Procs |-> createEmptyContext]
    /\ kbFile = FileOf(kb)
    /\ backups = <<>>
    /\ log = <<[kind |-> "started", cycle |-> 0, commands |-> 0]>>
    /\ inflight = [q \in Procs |-> 0]
    /\ starts = [q \in Procs |-> IF q = p THEN 1 ELSE 0]
    /\ touched = [q \in Procs |-> q = p]
    /\ stopped = [q \in Procs |-> FALSE]
    /\ completed = kb.total_cycles
    /\ lastCmds = <<>>
    /\ status = [by |-> 0, running |-> FALSE, pid |-> 0]
    /\ goalsFile = gf
    /\ missionFile = mf
    /\ clock = now
    /\ prompt = <<>>
    /\ usedNumbers = 1..kb.total_cycles
    /\ session = [q \in Procs |-> 0]
    /\ agentError = [q \in Procs |-> FALSE]
    /\ memFiles = [path \in MemPaths |-> MemAbsent]
    /\ remembered = [path \in MemPaths |-> [key \in Keys |-> NoValue]]

\* The first part of runCycle, which builds the prompt.
NextPrompt ==
  \E p \in Alone, readOk \in BOOLEAN, failAt \in CycleSteps : CycleBegin(p, readOk, failAt)

SpecPrompt == InitPrompt /\ [][NextPrompt]_vars

\* "heartbeat start" is run in a new process once no other heartbeat process
\* is left: each earlier one has returned from Start or died. The processes
\* are started in the order of their PIDs.
Restart(p) ==
  /\ starts[p] = 0
  /\ \A q \in Procs : q < p => (starts[q] > 0 /\ pc[q] \in {"returned", "dead"})
  /\ AcqRead(p)

\* Executor outputs for the runs with restarts: no command, or an invalid and
\* a valid one.
RestartResponses == { <<>>, <<Block(TRUE, <<ObsNum, LessonHigh>>)>> }

\* The scheduler stopped by a signal, killed and started again: one heartbeat
\* process at a time, the next one started after the last one returned or
\* died, with cycles that complete, cycles that abort (a rejected session, a
\* failing save, a file that cannot be parsed) and crashes at any step, also
\* inside the save.
NextRestart ==
  \E p \in Procs :
    \/ Restart(p)
    \/ AcqProbe(p)
    \/ AcqRemove(p)
    \/ AcqWrite(p, TRUE)
    \/ InitLoad(p, TRUE, TRUE)
    \/ LoopCheck(p)
    \/ LoopExit(p, TRUE)
    \/ SelectSignal(p)
    \/ Tick(p)
    \/ Signal(p)
    \/ \E failAt \in {"none", "session"} : CycleBegin(p, TRUE, failAt)
    \/ \E response \in RestartResponses, saveOutcome \in WriteOutcomes :
         CycleFinish(p, response, TRUE, saveOutcome, TRUE)
    \/ RelRead(p)
    \/ RelRemove(p)
    \/ Crash(p)
    \/ \E response \in RestartResponses, left \in CrashOutcomes :
         CrashInSave(p, response, TRUE, left)

SpecRestart == Init /\ [][NextRestart]_vars

\* Several heartbeat processes started at any moment against one home
\* directory, as in SpecLock, and ticks: each process that gets into its loop
\* runs cycles that complete, on an executor that sends no command.
NextRace ==
  \E p \in Procs :
    \/ StartOnce(p)
    \/ AcqProbe(p)
    \/ AcqRemove(p)
    \/ AcqWrite(p, TRUE)
    \/ InitLoad(p, TRUE, TRUE)
    \/ LoopCheck(p)
    \/ Tick(p)
    \/ CycleBegin(p, TRUE, "none")
    \/ CycleFinish(p, <<>>, TRUE, "ok", TRUE)
    \/ Crash(p)

SpecRace == Init /\ [][NextRace]_vars

\* The memory Store under every sequence of Remember and Forget calls, with
\* every outcome of the file write; Recall and List read the files that are
\* there.
NextMemory ==
  \/ \E key \in Keys, value \in Values, scope \in Scopes, outcome \in WriteOutcomes :
       Remember(key, value, scope, outcome)
  \/ \E key \in Keys, scope \in Scopes, outcome \in WriteOutcomes :
       Forget(key, scope, outcome)

SpecMemory == Init /\ [][NextMemory]_vars

\* The Service of one heartbeat process whose executor may report an error
\* during any run, with every executor output; the files can be read and
\* written, so that a cycle that does not save is a cycle that was aborted.
NextAgent ==
  \E p \in Alone :
    \/ AcqRead(p)
    \/ AcqWrite(p, TRUE)
    \/ InitLoad(p, TRUE, TRUE)
    \/ LoopCheck(p)
    \/ LoopExit(p, TRUE)
    \/ SelectSignal(p)
    \/ Tick(p)
    \/ Signal(p)
    \/ \E failAt \in CycleSteps : CycleBegin(p, TRUE, failAt)
    \/ AgentError(p)
    \/ \E response \in Responses : CycleFinish(p, response, TRUE, "ok", TRUE)
    \/ RelRead(p)
    \/ RelRemove(p)

SpecAgent == Init /\ [][NextAgent]_vars

\* ---------------------------------------------------------------- properties
\* p is inside the scheduler loop of Start (for s.running { select ... }).
InLoop(p) == alive[p] /\ pc[p] \in {"loop", "select", "await"}

\* The step of p is the ticker case of select: runCycle begins.
BeginsCycle(p) ==
  /\ pc[p] = "select"
  /\ pc'[p] \in {"await", "loop"}
  /\ cycleNumber'[p] = cycleNumber[p] + 1

\* A shutdown request has reached the Service of p and its loop has not
\* acted on it yet: a signal waits in sigChan, or Stop() has run.
ShutdownRequested(p) == sigPending[p] \/ (ctxCancelled[p] /\ ~running[p])

\* The step of p ends a cycle: runCycle returns to the loop, with an error
\* before the delegation or after it.
EndsCycle(p) ==
  \/ BeginsCycle(p) /\ pc'[p] = "loop"
  \/ pc[p] = "await" /\ pc'[p] = "loop"

\* ExecuteMemoryCommand accepts the command (returns nil).
ValidCommand(cmd) == ExecuteMemoryCommand(createEmptyContext, cmd, 0)[1]

\* The required fields of the command's kind are there and are text.
RequiredFieldsOk(cmd) ==
  CASE cmd.command \in {"add_observation", "add_lesson", "add_hypothesis"} ->
         cmd.content \in StrVals
    [] cmd.command = "add_strategy" ->
         cmd.name \in StrVals /\ cmd.description \in StrVals
    [] cmd.command = "prune_old" -> TRUE
    [] OTHER -> FALSE

\* The commands of the list that have their required fields, in their order.
ValidOnly(cmds) == SelectSeq(cmds, RequiredFieldsOk)

\* The four lists of two contexts are the same.
SameLists(a, b) ==
  /\ a.observations = b.observations
  /\ a.lessons = b.lessons
  /\ a.hypotheses = b.hypotheses
  /\ a.strategies = b.strategies

\* What a command with its required fields is to do to a context at cycle k:
\* one entry at the end of the list of its kind, nothing for prune_old.
Appended(c, cmd, k) ==
  CASE cmd.command = "add_observation" ->
         [c EXCEPT !.observations = Append(@, [content |-> cmd.content, cycle |-> k])]
    [] cmd.command = "add_lesson" ->
         [c EXCEPT !.lessons =
            Append(@, [content |-> cmd.content, cycle |-> k,
                       confidence |-> IF cmd.confidence \in StrVals
                                        THEN cmd.confidence ELSE ""])]
    [] cmd.command = "add_hypothesis" ->
         [c EXCEPT !.hypotheses =
            Append(@, [content |-> cmd.content, cycle |-> k, status |-> "testing"])]
    [] cmd.command = "add_strategy" ->
         [c EXCEPT !.strategies =
            Append(@, [name |-> cmd.name, description |-> cmd.description,
                       cycle |-> k, effectiveness |-> ""])]
    [] OTHER -> c

RECURSIVE AppendedAll(_, _, _)
AppendedAll(c, cmds, k) ==
  IF cmds = <<>> THEN c ELSE AppendedAll(Appended(c, Head(cmds), k), Tail(cmds), k)

\* C1: starting from a fresh knowledge base, the total_cycles persisted in
\* context.json equals the number of cycles completed successfully so far.
C1_TotalCyclesCountsCompleted ==
  kbFile.state = "ok" => kbFile.data.total_cycles = completed

\* C2: under every interleaving of the steps of acquireLock of several
\* processes, at most one process at a time is inside the scheduler loop.
C2_OneProcessInLoop ==
  \A p, q \in Procs : (InLoop(p) /\ InLoop(q)) => p = q

\* C3: acquireLock of p reads the marker it finds, and when the process that
\* marker names answers the probe, Start of p returns the "already running"
\* error and the marker is left as it is.
C3_LiveHolderRejectsAcquire ==
  [][\A p \in Procs :
       /\ (pc[p] \in {"idle", "returned"} /\ pc'[p] \notin {"idle", "returned"}
           /\ pidFile # NoFile)
          => (pc'[p] = "acq_probe" /\ oldPID'[p] = pidFile /\ pidFile' = pidFile)
       /\ (pc[p] = "acq_probe" /\ pc'[p] # "acq_probe" /\ alive'[p]
           /\ oldPID[p] \in Procs /\ alive[oldPID[p]])
          => (ret'[p] = "already_running" /\ pc'[p] = "returned"
              /\ pidFile' = pidFile)]_vars

C3_Witness ==
  \E p \in Procs :
    /\ ret[p] = "already_running"
    /\ pidFile \in Procs \ {p}
    /\ alive[pidFile]

\* C4: when the marker that acquireLock of p read names a process that does
\* not answer the probe, acquireLock is not rejected: it removes the marker,
\* writes its own, and when it returns the marker names p and not the dead
\* process.
C4_StaleMarkerIsReclaimed ==
  [][\A p \in Procs :
       (pc[p] \in {"acq_probe", "acq_remove", "acq_write"}
        /\ oldPID[p] \in Procs /\ ~alive[oldPID[p]]
        /\ pc'[p] # pc[p] /\ alive'[p])
       => /\ ret'[p] = "none"
          /\ pc[p] = "acq_probe" => pc'[p] = "acq_remove"
          /\ pc[p] = "acq_remove" => (pc'[p] = "acq_write" /\ pidFile' = NoFile)
          /\ pc[p] = "acq_write" => (pc'[p] = "init" /\ pidFile' = p
                                     /\ pidFile' # oldPID[p])]_vars

C4_Witness ==
  \E p \in Procs :
    /\ pc[p] = "init"
    /\ pidFile = p
    /\ oldPID[p] \in Procs
    /\ ~alive[oldPID[p]]

\* C5: releaseLock of p never removes a marker that names another process.
C5_ReleaseRemovesOnlyOwnMarker ==
  [][\A p \in Procs :
       (pc[p] = "rel_remove" /\ pc'[p] = "returned") => pidFile \in {p, NoFile}]_vars

\* C6: whoever asks, GetStatus answers (true, the PID in the marker) exactly
\* when the marker exists and the process it names answers the probe, and
\* (false, 0) otherwise.
C6_StatusIsLivenessOfMarker ==
  [][status' # status =>
       LET live == pidFile \in Procs /\ alive[pidFile] IN
         /\ status'.running = live
         /\ status'.pid = (IF live THEN pidFile ELSE 0)]_vars

C6_Witness ==
  /\ status.running
  /\ status.by \in Procs
  /\ status.by # status.pid
  /\ pidFile = status.pid

\* C7: a Start that acquireLock rejected with "already running" returns at
\* once: the rejecting step leaves the marker, context.json, the backups and
\* the log as they are, and the rejected Start neither enters the loop nor
\* runs a cycle nor writes anything nor releases the lock.
C7_RejectedStartDoesNothing ==
  /\ [](\A p \in Procs :
          ret[p] = "already_running" => (pc[p] = "returned" /\ ~touched[p]))
  /\ [][\A p \in Procs :
          (ret[p] # "already_running" /\ ret'[p] = "already_running")
          => /\ pc'[p] = "returned"
             /\ pidFile' = pidFile
             /\ kbFile' = kbFile /\ backups' = backups /\ log' = log
             /\ cycleNumber'[p] = cycleNumber[p]]_vars

C7_Witness ==
  \E p \in Procs :
    /\ ret[p] = "already_running"
    /\ pc[p] = "returned"
    /\ pidFile \notin {p, NoFile}
    /\ InLoop(pidFile)
    /\ Len(log) > 0

\* C8: once a shutdown request (signal or Stop()) has been received, no new
\* cycle begins.
C8_NoCycleAfterShutdownRequest ==
  [][\A p \in Procs : ShutdownRequested(p) => ~BeginsCycle(p)]_vars

\* C9: once Start has left its loop (Stopped), that Service never begins
\* another cycle, also when Start is called on it again.
C9_StoppedIsTerminal ==
  [][\A p \in Procs : stopped[p] => ~BeginsCycle(p)]_vars

C11_ShutdownEventuallyStops ==
  /\ \A p \in Procs :
       (InLoop(p) /\ (sigPending[p] \/ ctxCancelled[p]))
         ~> (pc[p] = "returned" /\ ret[p] = "nil" /\ stopped[p])
  /\ [][\A p \in Procs :
          pc[p] = "await"
          => /\ pc'[p] = "await" => (sigPending[p] => sigPending'[p])
             /\ pc'[p] = "await" => (stopped'[p] = stopped[p] /\ ret'[p] = "none")
             /\ pc'[p] # "await" => (pc'[p] = "loop" /\ ctx'[p] = createEmptyContext)]_vars

C11_Witness ==
  \E p \in Procs :
    /\ pc[p] = "returned" /\ ret[p] = "nil" /\ stopped[p]
    /\ ~ctxCancelled[p]
    /\ completed > 0

\* C12: at most one executor delegation of a scheduler is in flight, and one
\* is in flight only while runCycle waits for its completion; a tick, a
\* signal or Stop() that arrives meanwhile starts no other.
C12_OneDelegationInFlight ==
  \A p \in Procs :
    /\ inflight[p] \in {0, 1}
    /\ inflight[p] = 1 <=> (alive[p] /\ pc[p] = "await")

C12_Witness ==
  \E p \in Procs :
    inflight[p] = 1 /\ tickPending[p] /\ sigPending[p] /\ ctxCancelled[p]

\* C13: a cycle begins only when no delegation of the cycle before is in
\* flight, context.json is written only by the step that ends a cycle, a
\* completed cycle has written its context before it ends, and the context a
\* cycle loads is the content of context.json as the cycle before left it.
C13_LoadSeesPreviousSave ==
  [][\A p \in Procs :
       /\ (BeginsCycle(p) /\ pc'[p] = "await")
          => /\ inflight[p] = 0
             /\ kbFile.state # "corrupt"
             /\ ctx'[p] = kbFile.data
             /\ kbFile' = kbFile
       /\ (pc[p] = "await" /\ pc'[p] = "loop" /\ completed' = completed + 1)
          => /\ kbFile'.state = "ok"
             /\ kbFile'.data.total_cycles = cycleNumber[p]
       /\ kbFile' # kbFile => \E q \in Procs : pc[q] = "await" /\ pc'[q] # "await"]_vars

C13_Witness ==
  \E p \in Procs :
    /\ pc[p] = "await"
    /\ cycleNumber[p] = 2
    /\ completed = 1
    /\ Len(ctx[p].lessons) > 0
    /\ ctx[p].total_cycles = 1

\* C14: a cycle that aborts before the delegation (context, goals or mission
\* not loaded, session not created, executor not started) writes neither
\* context.json nor a backup, leaves s.running as it is and returns to the
\* loop, where the next tick begins another cycle.
C14_AbortedCycleSavesNothing ==
  [][\A p \in Procs :
       (BeginsCycle(p) /\ pc'[p] = "loop")
       => /\ kbFile' = kbFile
          /\ backups' = backups
          /\ inflight' = inflight
          /\ running'[p] = running[p]
          /\ ret'[p] = "none"
          /\ alive'[p]]_vars

C14_Witness ==
  \E p \in Procs :
    /\ pc[p] = "await"
    /\ cycleNumber[p] = 2
    /\ completed = 0
    /\ lastCmds = <<>>
    /\ kbFile = FileAbsent
    /\ backups = <<>>

\* C15: every cycle, completed or aborted, appends exactly one entry of its
\* own to the activity log.
C15_EveryCycleLogsOnce ==
  [][\A p \in Procs :
       EndsCycle(p)
       => /\ Len(log') = Len(log) + 1
          /\ log'[Len(log')].kind = "cycle"
          /\ log'[Len(log')].cycle = cycleNumber'[p]]_vars

\* C16: a cycle creates a backup exactly when the commands extracted from the
\* executor's output hold at least one valid command.
C16_BackupIffValidCommand ==
  [][\A p \in Procs :
       (pc[p] = "await" /\ pc'[p] = "loop")
       => (Len(backups') = Len(backups) + 1
           <=> \E i \in 1..Len(lastCmds') : ValidCommand(lastCmds'[i]))]_vars

\* C17: the backup a cycle writes is named after the cycle and holds
\* context.json as it was before the cycle, which is the context the cycle
\* loaded: none of the cycle's commands and not its save.
C17_BackupIsPreCycleState ==
  [][\A p \in Procs :
       (pc[p] = "await" /\ backups' # backups)
       => /\ Len(backups') = Len(backups) + 1
          /\ SubSeq(backups', 1, Len(backups)) = backups
          /\ LET b == backups'[Len(backups')] IN
               /\ b.reason = cycleNumber[p]
               /\ b.file = kbFile
               /\ b.file.state = "ok"
               /\ b.file.data = ctx[p]]_vars

C17_Witness ==
  /\ Len(backups) = 1
  /\ kbFile.state = "ok"
  /\ kbFile.data.total_cycles = 2
  /\ backups[1].file.data.total_cycles = 1
  /\ Len(kbFile.data.lessons) > Len(backups[1].file.data.lessons)

\* C18: when a cycle has commands to apply and context.json exists but no
\* backup of it is written, the cycle does not write context.json.
C18_NoSaveWithoutBackup ==
  [][\A p \in Procs :
       (pc[p] = "await" /\ pc'[p] = "loop" /\ Len(lastCmds') > 0
        /\ kbFile.state # "absent" /\ backups' = backups)
       => kbFile' = kbFile]_vars

\* C19: when a process dies, context.json is afterwards what it was before or
\* a complete, parsable file: a crash never leaves it empty or partly written.
C19_CrashLeavesOldOrNewFile ==
  [][\A p \in Procs :
       (alive[p] /\ ~alive'[p]) => (kbFile' = kbFile \/ kbFile'.state = "ok")]_vars

\* C20: the context a cycle saves is the one it loaded with only the valid
\* commands applied, in their order: a command of unknown kind or with a
\* missing or wrong-typed required field changes nothing and stops no command
\* after it.
C20_InvalidCommandsAreSkipped ==
  [][\A p \in Procs :
       (pc[p] = "await" /\ pc'[p] = "loop" /\ completed' = completed + 1)
       => /\ kbFile'.state = "ok"
          /\ kbFile'.data =
               [ExecuteAll(ctx[p], ValidOnly(lastCmds'), cycleNumber[p])
                  EXCEPT !.total_cycles = cycleNumber[p]]
          /\ \A i \in 1..Len(lastCmds') :
               LET before == ExecuteAll(ctx[p], SubSeq(lastCmds', 1, i - 1), cycleNumber[p])
                   after == ExecuteAll(ctx[p], SubSeq(lastCmds', 1, i), cycleNumber[p])
               IN RequiredFieldsOk(lastCmds'[i]) \/ after = before]_vars

C20_Witness ==
  /\ completed = 2
  /\ Len(lastCmds) = 2
  /\ ~RequiredFieldsOk(lastCmds[1])
  /\ lastCmds[2].command = "add_strategy"
  /\ kbFile.state = "ok"
  /\ Len(kbFile.data.strategies) = 1
  /\ Len(kbFile.data.observations) = 1

\* C21: whatever the executor's output holds (no block, an unparsable block,
\* an empty block, only invalid commands, valid commands), the second part of
\* runCycle whose writes succeed completes the cycle: context.json is saved
\* with a higher total_cycles and the success entry is logged.
C21_OutputNeverFailsCycle ==
  [][\A p \in Procs, r \in Responses, b \in BOOLEAN :
       CycleFinish(p, r, b, "ok", TRUE)
       => /\ completed' = completed + 1
          /\ kbFile'.state = "ok"
          /\ kbFile'.data.total_cycles = cycleNumber[p]
          /\ kbFile'.data.total_cycles > ctx[p].total_cycles
          /\ Len(log') = Len(log) + 1
          /\ log'[Len(log')].kind = "cycle"
          /\ pc'[p] = "loop"]_vars

C21_Witness ==
  /\ completed = 1
  /\ lastCmds = <<ObsNum>>
  /\ kbFile.state = "ok"
  /\ kbFile.data.total_cycles = 1
  /\ log[Len(log)].kind = "cycle"

\* C22: a cycle whose executor output holds no block or more than one block
\* saves the four lists as it loaded them.
C22_OnlySingleBlockApplied ==
  [][\A p \in Procs, r \in {o \in Outputs : Len(o) # 1}, b \in BOOLEAN :
       CycleFinish(p, r, b, "ok", TRUE) => SameLists(kbFile'.data, ctx[p])]_vars

\* C23: every valid add_observation, add_lesson, add_hypothesis and
\* add_strategy appends one entry with its text fields and the cycle number at
\* the end of its own list (a hypothesis with status testing, a lesson with its
\* confidence or an empty one) and changes nothing else, total_cycles
\* included: the context a cycle saves is the one it loaded with these entries
\* appended in order; add_lesson{X, high} on an empty context at cycle 3 gives
\* the one lesson {X, high, 3}.
C23_ValidCommandAppendsOneEntry ==
  /\ [](ExecuteMemoryCommand(createEmptyContext, LessonHigh, 3)
          = <<TRUE, [createEmptyContext EXCEPT !.lessons =
                       <<[content |-> "X", cycle |-> 3, confidence |-> "high"]>>]>>)
  /\ [][\A p \in Procs :
          (pc[p] = "await" /\ pc'[p] = "loop" /\ completed' = completed + 1)
          => /\ kbFile'.data =
                  [AppendedAll(ctx[p], ValidOnly(lastCmds'), cycleNumber[p])
                     EXCEPT !.total_cycles = cycleNumber[p]]
             /\ \A i \in 1..Len(lastCmds') :
                  LET before == ExecuteAll(ctx[p], SubSeq(lastCmds', 1, i - 1),
                                           cycleNumber[p])
                      r == ExecuteMemoryCommand(before, lastCmds'[i], cycleNumber[p])
                  IN RequiredFieldsOk(lastCmds'[i])
                       => (r[1] /\ r[2] = Appended(before, lastCmds'[i], cycleNumber[p])
                           /\ r[2].total_cycles = before.total_cycles)]_vars

C23_Witness ==
  /\ completed = 2
  /\ Len(lastCmds) = 2
  /\ kbFile.state = "ok"
  /\ kbFile.data.lessons = <<[content |-> "X", cycle |-> 1, confidence |-> "high"],
                             [content |-> "X", cycle |-> 2, confidence |-> ""]>>
  /\ kbFile.data.hypotheses = <<[content |-> "X", cycle |-> 2, status |-> "testing"]>>
  /\ Len(kbFile.data.observations) = 1

\* C24: prune_old, with any data, is accepted and changes nothing: a cycle
\* whose commands are all prune_old saves the four lists as it loaded them.
C24_PruneOldIsNoOp ==
  [][\A p \in Procs :
       (pc[p] = "await" /\ pc'[p] = "loop")
       => \A i \in 1..Len(lastCmds') :
            lastCmds'[i].command = "prune_old"
            => LET before == ExecuteAll(ctx[p], SubSeq(lastCmds', 1, i - 1),
                                        cycleNumber[p])
               IN /\ ExecuteMemoryCommand(before, lastCmds'[i], cycleNumber[p])
                       = <<TRUE, before>>
                  /\ (completed' = completed + 1
                      /\ \A j \in 1..Len(lastCmds') : lastCmds'[j].command = "prune_old")
                     => kbFile'.data = [ctx[p] EXCEPT !.total_cycles = cycleNumber[p]]]_vars

C24_Witness ==
  /\ completed = 2
  /\ Len(lastCmds) = 2
  /\ \A j \in 1..2 : lastCmds[j].command = "prune_old"
  /\ lastCmds[1].content = "X"
  /\ kbFile.state = "ok"
  /\ Len(kbFile.data.observations) = 1
  /\ Len(kbFile.data.lessons) = 1

\* C25: a cycle that applies no valid command saves the four lists exactly as
\* it loaded them and as context.json held them, with a new total_cycles; and
\* no step other than the end of a cycle changes context.json.
C25_ListsChangeOnlyByCommands ==
  [][/\ \A p \in Procs :
          (pc[p] = "await" /\ pc'[p] = "loop" /\ completed' = completed + 1
           /\ ValidOnly(lastCmds') = <<>>)
          => /\ kbFile'.state = "ok"
             /\ SameLists(kbFile'.data, ctx[p])
             /\ SameLists(kbFile'.data, kbFile.data)
             /\ kbFile'.data.total_cycles = cycleNumber[p]
     /\ kbFile' # kbFile => \E q \in Procs : pc[q] = "await" /\ pc'[q] # "await"]_vars

C25_Witness ==
  /\ completed = 2
  /\ lastCmds = <<ObsNum>>
  /\ kbFile.state = "ok"
  /\ kbFile.data.total_cycles = 2
  /\ Len(kbFile.data.lessons) = 1
  /\ kbFile.data.lessons[1].cycle = 1

\* C26: no step of Start, Stop or a cycle writes goals.json or mission.md, so
\* the goals with their ids and next_id and the mission text stay what they
\* were, and next_id stays above every id.
C26_GoalsAndMissionNeverWritten ==
  /\ [][goalsFile' = goalsFile /\ missionFile' = missionFile]_vars
  /\ [](GoalSetOk(goalsFile))

C26_Witness ==
  /\ completed = 2
  /\ \E p \in Procs : stopped[p]
  /\ Len(goalsFile.goals) = 2
  /\ goalsFile.next_id = 3
  /\ missionFile = "M"

\* p builds the prompt of a cycle in this step: runCycle gets as far as the
\* delegation.
BuildsPrompt(p) == pc[p] = "select" /\ pc'[p] = "await"

\* The lines of a prompt that are of one of the kinds given.
LinesOf(text, kinds) == SelectSeq(text, LAMBDA l : l.kind \in kinds)

Min(a, b) == IF a < b THEN a ELSE b

\* C27: for a knowledge base with n observations the prompt holds the last
\* min(n, 5) of them, in stored order, and none of the earlier ones; the stored
\* list is not shortened.
C27_PromptShowsLastFiveObservations ==
  [][\A p \in Procs : BuildsPrompt(p) =>
       LET stored == kbFile.data.observations
           n == Len(stored)
           shown == LinesOf(prompt', {"observation"})
       IN /\ Len(shown) = Min(n, RecentObservations)
          /\ \A j \in 1..Len(shown) :
               /\ shown[j].n = stored[n - Len(shown) + j].cycle
               /\ shown[j].s1 = stored[n - Len(shown) + j].content
          /\ \A i \in 1..(n - Len(shown)) : \A j \in 1..Len(shown) :
               shown[j].n # stored[i].cycle
          /\ kbFile' = kbFile
          /\ ctx'[p].observations = stored]_vars

C27_Witness ==
  \E p \in Procs :
    /\ pc[p] = "await"
    /\ Len(ctx[p].observations) = 7
    /\ Len(kbFile.data.observations) = 7
    /\ Len(LinesOf(prompt, {"observation"})) = 5
    /\ LinesOf(prompt, {"observation"})[1].n = 3
    /\ LinesOf(prompt, {"observation"})[5].n = 7

\* C28: the prompt depends on the knowledge base, the goals, the mission and
\* the cycle number only: built from the same four at any other moment it is
\* the same text.
C28_PromptIsDeterministic ==
  [][\A p \in Procs : BuildsPrompt(p) =>
       \A now \in 0..MaxClock :
         prompt' = BuildUserPrompt(ctx'[p], goalsFile, missionFile, cycleNumber'[p], now)]_vars

\* C29: the goals section lists the goals whose status is active and no other,
\* in the order of the goal set, each followed by its last progress entry when
\* it has one and by no progress line when it has none.
C29_PromptListsActiveGoals ==
  [][\A p \in Procs : BuildsPrompt(p) =>
       LET goals == goalsFile.goals
           active == SelectSeq(goals, LAMBDA g : g.status = "active")
           listed == LinesOf(prompt', {"goal"})
       IN /\ Len(listed) = Len(active)
          /\ \A j \in 1..Len(listed) :
               /\ listed[j].s2 = active[j].title
               /\ listed[j].s1 = active[j].priority
               /\ listed[j].s3 = active[j].description
          /\ \A k \in 1..Len(prompt') : prompt'[k].kind = "goal" =>
               LET g == goals[prompt'[k].n] IN
                 /\ g.status = "active"
                 /\ g.title = prompt'[k].s2
                 /\ IF Len(g.progress) > 0
                      THEN /\ prompt'[k + 1].kind = "latest"
                           /\ prompt'[k + 1].s1 = g.progress[Len(g.progress)]
                      ELSE prompt'[k + 1].kind # "latest"
          /\ \A k \in 1..Len(prompt') : prompt'[k].kind = "latest" =>
               prompt'[k - 1].kind = "goal"]_vars

C29_Witness ==
  \E p \in Procs :
    /\ pc[p] = "await"
    /\ Len(goalsFile.goals) = 3
    /\ goalsFile.goals[2].status = "completed"
    /\ Len(LinesOf(prompt, {"goal"})) = 2
    /\ LinesOf(prompt, {"goal"})[2].s2 = "T3"
    /\ Len(LinesOf(prompt, {"latest"})) = 1
    /\ LinesOf(prompt, {"latest"})[1].s1 = "P2"

\* Place of a line of the prompt among its sections: goals, observations,
\* lessons, hypotheses, strategies, closing directive.
SectionRank(kind) ==
  CASE kind \in {"header", "time", "mission"} -> 0
    [] kind \in {"goals_header", "no_goals", "goal", "latest"} -> 1
    [] kind = "knowledge_header" -> 2
    [] kind \in {"observations_header", "observation"} -> 3
    [] kind \in {"lessons_header", "lesson"} -> 4
    [] kind \in {"hypotheses_header", "hypothesis"} -> 5
    [] kind \in {"strategies_header", "strategy"} -> 6
    [] kind = "this_cycle" -> 7

\* C30: the prompt holds every stored lesson and every stored strategy in
\* stored order, of the hypotheses those with status testing and no other, and
\* its sections come in the order goals, observations, lessons, hypotheses,
\* strategies, closing directive.
C30_PromptKnowledgeSections ==
  [][\A p \in Procs : BuildsPrompt(p) =>
       LET kb == kbFile.data
           testing == SelectSeq(kb.hypotheses, LAMBDA h : h.status = "testing")
           lessons == LinesOf(prompt', {"lesson"})
           hyps == LinesOf(prompt', {"hypothesis"})
           strats == LinesOf(prompt', {"strategy"})
       IN /\ Len(lessons) = Len(kb.lessons)
          /\ \A j \in 1..Len(lessons) :
               /\ lessons[j].s1 = kb.lessons[j].content
               /\ lessons[j].s2 = kb.lessons[j].confidence
          /\ Len(strats) = Len(kb.strategies)
          /\ \A j \in 1..Len(strats) :
               /\ strats[j].s1 = kb.strategies[j].name
               /\ strats[j].s2 = kb.strategies[j].description
               /\ strats[j].s3 = kb.strategies[j].effectiveness
          /\ Len(hyps) = Len(testing)
          /\ \A j \in 1..Len(hyps) : hyps[j].s1 = testing[j].content
          /\ \A i, j \in 1..Len(prompt') :
               i < j => SectionRank(prompt'[i].kind) <= SectionRank(prompt'[j].kind)
          /\ prompt'[Len(prompt')].kind = "this_cycle"
          /\ Len(LinesOf(prompt', {"goals_header", "knowledge_header", "this_cycle"})) = 3]_vars

C30_Witness ==
  \E p \in Procs :
    /\ pc[p] = "await"
    /\ Len(ctx[p].hypotheses) = 3
    /\ ctx[p].hypotheses[2].status = "rejected"
    /\ Len(LinesOf(prompt, {"hypothesis"})) = 2
    /\ LinesOf(prompt, {"hypothesis"})[2].s1 = "H3"
    /\ Len(LinesOf(prompt, {"lesson"})) = 2
    /\ Len(LinesOf(prompt, {"strategy"})) = 2
    /\ Len(LinesOf(prompt, {"observation"})) = 5
    /\ Len(LinesOf(prompt, {"goal"})) = 2

\* C31: over completed and aborted cycles, stops, crashes and restarts, the
\* total_cycles in context.json never goes down: every value written is at
\* least the one that was there, and a file that cannot be read is never
\* replaced by a smaller count.
C31_TotalCyclesNeverDecreases ==
  [][/\ (kbFile.state = "ok" /\ kbFile'.state = "ok")
          => kbFile'.data.total_cycles >= kbFile.data.total_cycles
     /\ kbFile.state = "corrupt" => kbFile'.state = "corrupt"
     /\ kbFile.state # "absent" => kbFile'.state # "absent"]_vars

\* C32: once Remember(key, value, scope) has returned nil, Recall(key, scope)
\* gives that value, whatever is remembered or forgotten under other keys,
\* until Remember or Forget is called for the key again.
C32_RecallReturnsRemembered ==
  \A scope \in Scopes, key \in Keys :
    remembered[getMemoryPath(scope)][key] \notin {NoValue, Forgotten}
      => Recall(key, scope) = <<"found", remembered[getMemoryPath(scope)][key]>>

\* C33: after a Forget(key, scope) that returned nil, Recall(key, scope)
\* reports not found and List(scope) has no entry with the key, while every
\* other key of the scope is recalled as before and the other scopes' files
\* are as they were; and Forget of a key that is not stored returns nil, given
\* that the file can be written, and leaves the list of memories as it was.
C33_ForgetRemovesOnlyTheKey ==
     [][\A scope \in Scopes, key \in Keys :
          /\ (Forget(key, scope, "ok") /\ ForgetReturns(key, scope, "ok") = "nil")
               => /\ Recall(key, scope)' = <<"not_found", NoValue>>
                  /\ List(scope)'[1]
                  /\ \A i \in 1..Len(List(scope)'[2]) : List(scope)'[2][i].key # key
                  /\ \A k \in Keys \ {key} : Recall(k, scope)' = Recall(k, scope)
                  /\ \A s \in Scopes : getMemoryPath(s) # getMemoryPath(scope)
                                        => List(s)' = List(s)
                  /\ List(scope)'[2] = SelectSeq(List(scope)[2], LAMBDA m : m.key # key)
          /\ (Forget(key, scope, "ok") /\ List(scope)[1]
              /\ \A i \in 1..Len(List(scope)[2]) : List(scope)[2][i].key # key)
               => /\ ForgetReturns(key, scope, "ok") = "nil"
                  /\ List(scope)' = List(scope)]_vars

C33_Witness ==
  /\ remembered["projects/memory.json"]["k1"] = Forgotten
  /\ remembered["projects/memory.json"]["k2"] = "v2"
  /\ memFiles["projects/memory.json"].state = "ok"
  /\ Len(memFiles["projects/memory.json"].data) = 1
  /\ remembered["global/memory.json"]["k2"] = Forgotten
  /\ memFiles["global/memory.json"].state = "ok"
  /\ Len(memFiles["global/memory.json"].data) = 1
  /\ memFiles["global/memory.json"].data[1].key = "k1"

\* C34: the command count in the log entry of a cycle is the number of
\* commands that were applied to the knowledge base in that cycle; commands
\* that were skipped as invalid are not counted.
C34_LogCountsAppliedCommands ==
  [][\A p \in Procs :
       (pc[p] = "await" /\ pc'[p] = "loop" /\ completed' = completed + 1
        /\ Len(log') = Len(log) + 1)
       => /\ log'[Len(log')].kind = "cycle"
          /\ log'[Len(log')].commands = Len(ValidOnly(lastCmds'))]_vars

\* C35: Start sets the cycle counter to the total_cycles of context.json, so
\* the first cycle after a restart is numbered total_cycles + 1, and no cycle
\* takes a number that an earlier cycle, completed or aborted, has taken.
C35_CycleNumbersNeverReused ==
  [][\A p \in Procs :
       /\ (pc[p] = "init" /\ pc'[p] = "loop" /\ kbFile.state = "ok")
            => cycleNumber'[p] = kbFile.data.total_cycles
       /\ BeginsCycle(p) => cycleNumber'[p] \notin usedNumbers]_vars

\* The entries of list b after the first Len(a) ones all carry cycle n.
NewEntriesStamped(a, b, n) ==
  \A i \in (Len(a) + 1)..Len(b) : b[i].cycle = n

\* C36: a cycle uses one number throughout: the number in the prompt header
\* and in the session title, the cycle stamped on every entry the cycle
\* appends, the tag of its backup, the number in its log entry and the
\* total_cycles it persists are the same.
C36_OneNumberPerCycle ==
  [][\A p \in Procs :
       (pc[p] = "await" /\ pc'[p] = "loop" /\ completed' = completed + 1)
       => LET n == cycleNumber[p] IN
            /\ prompt[1].kind = "header"
            /\ prompt[1].n = n
            /\ session[p] = n
            /\ cycleNumber'[p] = n
            /\ kbFile'.state = "ok"
            /\ kbFile'.data.total_cycles = n
            /\ NewEntriesStamped(ctx[p].observations, kbFile'.data.observations, n)
            /\ NewEntriesStamped(ctx[p].lessons, kbFile'.data.lessons, n)
            /\ NewEntriesStamped(ctx[p].hypotheses, kbFile'.data.hypotheses, n)
            /\ NewEntriesStamped(ctx[p].strategies, kbFile'.data.strategies, n)
            /\ backups' # backups => backups'[Len(backups')].reason = n
            /\ log' # log => log'[Len(log')].cycle = n]_vars

C36_Witness ==
  /\ completed = 2
  /\ kbFile.state = "ok"
  /\ kbFile.data.total_cycles = 2
  /\ Len(kbFile.data.lessons) = 2
  /\ kbFile.data.lessons[2].cycle = 2
  /\ Len(backups) > 0
  /\ backups[Len(backups)].reason = 2
  /\ log[Len(log)].kind = "cycle"
  /\ log[Len(log)].cycle = 2

\* Every entry of list a is still there in list b, at the same place and
\* with the same content.
KeepsEntries(a, b) ==
  /\ Len(b) >= Len(a)
  /\ \A i \in 1..Len(a) : b[i] = a[i]

\* C37: the persisted knowledge base only grows: whatever the cycles do
\* (complete or abort, with any commands), every entry that context.json
\* holds is still there afterwards, at its place in its list and unmodified.
C37_PersistedListsAppendOnly ==
  [][\A kind \in {"observations", "lessons", "hypotheses", "strategies"} :
       (kbFile.state = "ok" /\ Len(kbFile.data[kind]) > 0)
       => /\ kbFile'.state = "ok"
          /\ KeepsEntries(kbFile.data[kind], kbFile'.data[kind])]_vars


\* The step of p returns from Start after acquireLock succeeded: the loop was
\* left (signal or Stop()) or the initial LoadContext failed.
ReturnsAfterAcquire(p) ==
  /\ pc[p] \in {"rel_read", "rel_remove"}
  /\ pc'[p] = "returned"
  /\ ret'[p] \in {"nil", "load_failed"}

\* C38: when Start returns after a successful acquireLock (stopped by a signal
\* or by Stop(), or the initial load failed) the PID file does not name the
\* returning process, and unless another instance is inside Start GetStatus
\* answers not running; a PID file that names a process which is not inside
\* Start names a process that died.
C38_ReturnRemovesOwnMarker ==
  [][\A p \in Procs :
       /\ ReturnsAfterAcquire(p)
          => /\ pidFile' # p
             /\ (\A q \in Procs \ {p} : pc'[q] \in {"idle", "returned", "dead"})
                => GetStatusResult' = <<FALSE, 0>>
       /\ pidFile' = p => pc'[p] \notin {"idle", "returned"}]_vars

\* Start returned the load error after it had written its PID file, and the
\* file is gone.
C38_Witness ==
  \E p \in Procs :
    /\ alive[p]
    /\ pc[p] = "returned"
    /\ ret[p] = "load_failed"
    /\ pidFile = NoFile
    /\ GetStatusResult = <<FALSE, 0>>

\* The step of p is the return of runCycle after <-done.
ReturnsAfterDone(p) == pc[p] = "await" /\ pc'[p] = "loop" /\ alive'[p]

\* C39: when the executor reported an error during the run, the cycle is not
\* aborted: after <-done runCycle applies the commands of the collected text,
\* saves context.json with total_cycles set to the cycle's number, higher
\* than before, and logs the cycle's success entry.
C39_AgentErrorDoesNotAbortCycle ==
  [][\A p \in Procs :
       (agentError[p] /\ ReturnsAfterDone(p))
       => /\ lastCmds' \in {parseMemoryCommands(r) : r \in Responses}
          /\ kbFile'.state = "ok"
          /\ SameLists(kbFile'.data,
                       AppendedAll(ctx[p], ValidOnly(lastCmds'), cycleNumber[p]))
          /\ kbFile'.data.total_cycles = cycleNumber[p]
          /\ kbFile'.data.total_cycles > ctx[p].total_cycles
          /\ log' = Append(log, [kind |-> "cycle", cycle |-> cycleNumber[p],
                                 commands |-> Len(lastCmds')])
          /\ completed' = completed + 1]_vars

\* A run in which the executor reported an error has ended, and the lesson of
\* its output is in context.json under the cycle's number.
C39_Witness ==
  \E p \in Procs :
    /\ agentError[p]
    /\ pc[p] = "loop"
    /\ lastCmds = <<ObsNum, LessonHigh>>
    /\ kbFile.state = "ok"
    /\ kbFile.data.total_cycles = cycleNumber[p]
    /\ Len(kbFile.data.lessons) > 0
    /\ kbFile.data.lessons[Len(kbFile.data.lessons)].cycle = cycleNumber[p]
    /\ log[Len(log)] = [kind |-> "cycle", cycle |-> cycleNumber[p], commands |-> 2]

\* A prompt without its time line.
WithoutTime(text) == SelectSeq(text, LAMBDA l : l.kind # "time")

\* C40: the prompt runCycle builds is, apart from the time line, the prompt
\* BuildUserPrompt gives for the same knowledge base, goals and cycle number
\* with any other mission text, empty or not, at any moment; its mission
\* section is one line that carries nothing of mission.md.
C40_PromptIgnoresMission ==
  [][\A p \in Procs : BuildsPrompt(p) =>
       /\ \A mission \in MissionFiles, now \in 0..MaxClock :
            WithoutTime(prompt')
              = WithoutTime(BuildUserPrompt(ctx'[p], goalsFile, mission,
                                            cycleNumber'[p], now))
       /\ LinesOf(prompt', {"mission"}) = <<Line("mission", 0, "", "", "")>>]_vars

\* A prompt was built while mission.md held a text, and its mission section
\* does not show it.
C40_Witness ==
  \E p \in Procs :
    /\ pc[p] = "await"
    /\ missionFile = "M"
    /\ Len(prompt) > 0
    /\ \A i \in 1..Len(prompt) : "M" \notin {prompt[i].s1, prompt[i].s2, prompt[i].s3}
====
